---- MODULE Spec2Model ----
(***************************************************************************)
(* State-machine model of the tech-blog-portfolio REST backend: the user   *)
(* controller (register, login, profile), the authentication middleware    *)
(* (authenticateToken, optionalAuth), the article and project controllers  *)
(* and the relational tables they read and write.                          *)
(*                                                                         *)
(* One action is one HTTP request handled from the first middleware to the *)
(* response.  Every database call of a handler can throw: the input `fail` *)
(* of an action is the ordinal of the database call that throws (0: none). *)
(***************************************************************************)
EXTENDS Integers, Sequences, FiniteSets, TLC

VARIABLES
    users,          \* table Users: id -> row
    nextUserId,     \* serial of Users.id
    issued,         \* tokens signed so far with JWT_SECRET
    now,            \* clock, in token lifetimes
    registered,     \* id -> the user record the 201 response of register showed
    categories,     \* ids of the rows of table Categories
    technologies,   \* ids of the rows of table Technologies
    articles,       \* table Articles: id -> row
    nextArticleId,  \* serial of Articles.id
    projects,       \* table Projects: id -> row, with its ProjectTechnologies links
    nextProjectId,  \* serial of Projects.id
    slugIn,         \* a title handed to the three slug derivations
    slugOut,        \* their results
    resp,           \* the last request with its response
    comments,       \* table Comments: id -> row
    nextCommentId,  \* serial of Comments.id
    hits,           \* the rate limiter's count of requests in the current window
    fetches,        \* caller -> the request it has in flight between database calls
    served          \* article id -> number of detail fetches answered 200

userVars == <<users, nextUserId, issued, registered>>
contentVars == <<categories, technologies, articles, nextArticleId, projects,
                 nextProjectId>>
slugVars == <<slugIn, slugOut>>
serverVars == <<comments, nextCommentId, hits, fetches, served>>
vars == <<userVars, now, contentVars, slugVars, resp, serverVars>>

---------------------------------------------------------------------------
(* Bounds of the model *)

MaxUsers == 2
MaxTime == 1
MaxArticles == 2
MaxProjects == 2
MaxViews == 2
MaxTitleLen == 3
MaxGuardRows == 1
MaxComments == 2

(* jwt expiresIn (JWT_EXPIRES_IN || '24h'), in clock ticks *)
TokenLifetime == 1

---------------------------------------------------------------------------
(* Strings are sequences of one-character strings, so that toLowerCase is *)
(* computed and not assumed.                                              *)

UpperChars == <<"A", "B", "C", "X", "Y">>
LowerChars == <<"a", "b", "c", "x", "y">>

ToLowerChar(c) ==
    IF \E i \in 1..Len(UpperChars) : UpperChars[i] = c
    THEN LowerChars[CHOOSE i \in 1..Len(UpperChars) : UpperChars[i] = c]
    ELSE c

toLowerCase(s) == [i \in 1..Len(s) |-> ToLowerChar(s[i])]

(* Request inputs *)
UsernameInputs == {<<"a">>, <<"A">>, <<"b">>}
EmailInputs == {<<"x">>, <<"X">>, <<"y">>}
PasswordInputs == {"pw1", "pw2"}
RegisterPasswords == {"pw1"}
FirstNameInputs == {"Ann"}

Null == "null"

(* bcrypt.hash(password, 12) and bcrypt.compare *)
bcryptHash(password) == "$2b$12$" \o password
bcryptCompare(password, hash) == hash = bcryptHash(password)

(* firstName || null *)
OrNull(v) == IF v = "" THEN Null ELSE v

---------------------------------------------------------------------------
(* Tokens *)

jwtSign(user) ==
    [userId |-> user.id, username |-> user.username, role |-> user.role,
     exp |-> now + TokenLifetime, sig |-> "server"]

(* jwt.verify with ignoreExpiration *)
jwtVerifyIgnoresExpiry(t) == t.sig = "server"

(* jwt.verify(token, JWT_SECRET): signature and expiry *)
jwtVerify(t) == t.sig = "server" /\ now < t.exp

GarbageToken ==
    [userId |-> 0, username |-> <<>>, role |-> "", exp |-> 0, sig |-> "malformed"]

Forged(t) == [t EXCEPT !.sig = "forged"]

PresentableTokens == issued \cup {Forged(t) : t \in issued} \cup {GarbageToken}

(* The Authorization header: absent, a scheme without credential, or *)
(* "Bearer <token>".  cred is the set of words after the scheme.      *)
Headers ==
    {[present |-> FALSE, cred |-> {}], [present |-> TRUE, cred |-> {}]}
    \cup {[present |-> TRUE, cred |-> {t}] : t \in PresentableTokens}

(* authHeader && authHeader.split(' ')[1] *)
ExtractToken(hdr) == IF hdr.present THEN hdr.cred ELSE {}

---------------------------------------------------------------------------
(* Middleware *)

Reject(status, error) ==
    [next |-> FALSE, status |-> status, error |-> error, user |-> {},
     lookupFailed |-> FALSE]

Identity(row) == [userId |-> row.id, username |-> row.username, role |-> row.role]

(* authenticateToken without the isActive check *)
authenticateTokenAnyUser(hdr, lookupFails) ==
    LET token == ExtractToken(hdr) IN
    IF token = {} THEN Reject(401, "Access token required")
    ELSE LET t == CHOOSE x \in token : TRUE IN
         IF ~jwtVerify(t)
         THEN Reject(403, "Invalid or expired token")
         ELSE IF lookupFails
         THEN [Reject(403, "Invalid or expired token") EXCEPT !.lookupFailed = TRUE]
         ELSE IF t.userId \notin DOMAIN users
         THEN Reject(401, "Invalid or inactive user")
         ELSE [next |-> TRUE, status |-> 0, error |-> "",
               user |-> {Identity(users[t.userId])}, lookupFailed |-> FALSE]

(* try { verify; findUnique } catch { 403 }: a lookup that throws is      *)
(* answered like a token that does not verify                            *)
authenticateToken(hdr, lookupFails) ==
    LET token == ExtractToken(hdr) IN
    IF token = {} THEN Reject(401, "Access token required")
    ELSE LET t == CHOOSE x \in token : TRUE IN
         IF ~jwtVerify(t)
         THEN Reject(403, "Invalid or expired token")
         ELSE IF lookupFails
         THEN [Reject(403, "Invalid or expired token") EXCEPT !.lookupFailed = TRUE]
         ELSE IF t.userId \notin DOMAIN users \/ ~users[t.userId].isActive
         THEN Reject(401, "Invalid or inactive user")
         ELSE [next |-> TRUE, status |-> 0, error |-> "",
               user |-> {Identity(users[t.userId])}, lookupFailed |-> FALSE]

(* optionalAuth: the number of next() calls it makes, whether it sent a   *)
(* response, and the identity it put on the request.                     *)
Proceed(user) == [nextCalls |-> 1, responded |-> FALSE, status |-> 0, user |-> user]

(* optionalAuth answering 403 itself when the token does not verify *)
optionalAuthRejecting(hdr, lookupFails) ==
    LET token == ExtractToken(hdr) IN
    IF token = {} THEN Proceed({})
    ELSE LET t == CHOOSE x \in token : TRUE IN
         IF ~jwtVerify(t) \/ lookupFails
         THEN [nextCalls |-> 0, responded |-> TRUE, status |-> 403, user |-> {}]
         ELSE IF t.userId \in DOMAIN users /\ users[t.userId].isActive
         THEN Proceed({Identity(users[t.userId])})
         ELSE Proceed({})

optionalAuth(hdr, lookupFails) ==
    LET token == ExtractToken(hdr) IN
    IF token = {} THEN Proceed({})
    ELSE LET t == CHOOSE x \in token : TRUE IN
         IF ~jwtVerify(t) \/ lookupFails
         THEN Proceed({})                    \* catch (error) { next() }
         ELSE IF t.userId \in DOMAIN users /\ users[t.userId].isActive
         THEN Proceed({Identity(users[t.userId])})
         ELSE Proceed({})

---------------------------------------------------------------------------
(* Slugs *)

SlugLetters == {"a", "b", "c", "x", "y"}
SlugDigits == {"0", "1", "2", "9"}
Whitespace == {" ", "\t"}
Hyphen == {"-"}

(* the class [a-z0-9\s-] *)
SlugClass == SlugLetters \cup SlugDigits \cup Whitespace \cup Hyphen

(* s.replace(/[^a-z0-9\s-]/g, '') *)
StripNonSlug(s) == SelectSeq(s, LAMBDA c : c \in SlugClass)

(* s.replace(/[class]{minLen,}/g, '-'): leftmost, greedy, not overlapping *)
RunLength(s, class) ==
    IF \E k \in 1..Len(s) : s[k] \notin class
    THEN (CHOOSE k \in 1..Len(s) :
             s[k] \notin class /\ \A j \in 1..(k - 1) : s[j] \in class) - 1
    ELSE Len(s)

RECURSIVE ReplaceRuns(_, _, _)
ReplaceRuns(s, class, minLen) ==
    IF s = <<>> THEN <<>>
    ELSE LET k == RunLength(s, class) IN
         IF k >= minLen
         THEN <<"-">> \o ReplaceRuns(SubSeq(s, k + 1, Len(s)), class, minLen)
         ELSE <<s[1]>> \o ReplaceRuns(Tail(s), class, minLen)

(* String.prototype.trim *)
RECURSIVE TrimLeft(_)
TrimLeft(s) ==
    IF s # <<>> /\ s[1] \in Whitespace THEN TrimLeft(Tail(s)) ELSE s

RECURSIVE TrimRight(_)
TrimRight(s) ==
    IF s # <<>> /\ s[Len(s)] \in Whitespace
    THEN TrimRight(SubSeq(s, 1, Len(s) - 1))
    ELSE s

trim(s) == TrimRight(TrimLeft(s))

(* createArticle: ...replace(/\s+/g, '-').replace(/-+/g, '-').trim() *)
slugArticle(title) ==
    trim(ReplaceRuns(ReplaceRuns(StripNonSlug(toLowerCase(title)), Whitespace, 1),
                     Hyphen, 1))

(* the createProject chain without its .replace(/--+/g, '-') *)
slugProjectKeepsHyphens(title) ==
    trim(ReplaceRuns(StripNonSlug(toLowerCase(title)), Whitespace, 1))

(* createProject: ...replace(/\s+/g, '-').replace(/--+/g, '-').trim() *)
slugProject(title) ==
    trim(ReplaceRuns(ReplaceRuns(StripNonSlug(toLowerCase(title)), Whitespace, 1),
                     Hyphen, 2))

(* updateProject: the same chain as createProject, on the new title *)
slugProjectUpdate(title) ==
    trim(ReplaceRuns(ReplaceRuns(StripNonSlug(toLowerCase(title)), Whitespace, 1),
                     Hyphen, 2))

---------------------------------------------------------------------------
(* parseInt on a route or query parameter: the leading digits, or NaN *)

DigitChars == <<"0", "1", "2", "3", "4", "5", "6", "7", "8", "9">>

IsDigit(c) == \E i \in 1..Len(DigitChars) : DigitChars[i] = c

DigitValue(c) == (CHOOSE i \in 1..Len(DigitChars) : DigitChars[i] = c) - 1

RECURSIVE DigitsValue(_, _)
DigitsValue(s, acc) ==
    IF s = <<>> \/ ~IsDigit(s[1]) THEN acc
    ELSE DigitsValue(Tail(s), 10 * acc + DigitValue(s[1]))

parseInt(s) ==
    IF s = <<>> \/ ~IsDigit(s[1])
    THEN [nan |-> TRUE, val |-> 0]
    ELSE [nan |-> FALSE, val |-> DigitsValue(s, 0)]

---------------------------------------------------------------------------
(* Responses *)

(* body tells the shape of what was sent: "envelope" a JSON object with  *)
(* the field success, "object" a JSON object without it, "text" a plain  *)
(* string; success is a response field only when body is "envelope".    *)

(* res.status(status).json({success: false, error}) *)
Fail(op, req, status, error) ==
    [n |-> 1 - resp.n, op |-> op, req |-> req, status |-> status,
     body |-> "envelope", success |-> FALSE, error |-> error, message |-> "",
     user |-> {}, token |-> {}, data |-> {}, list |-> <<>>, pagination |-> {},
     ran |-> TRUE, dbError |-> FALSE, nextCalls |-> 0, ident |-> {}]

(* res.status(status).json({success: true, message, ...}) *)
Ok(op, req, status, message) ==
    [n |-> 1 - resp.n, op |-> op, req |-> req, status |-> status,
     body |-> "envelope", success |-> TRUE, error |-> "", message |-> message,
     user |-> {}, token |-> {}, data |-> {}, list |-> <<>>, pagination |-> {},
     ran |-> TRUE, dbError |-> FALSE, nextCalls |-> 0, ident |-> {}]

(* a catch block answering 500 after a database call threw *)
DbFail(op, req, error) == [Fail(op, req, 500, error) EXCEPT !.dbError = TRUE]

(* the response a rejecting middleware sent; the controller did not run *)
Rejected(op, req, auth, lookupFails) ==
    [Fail(op, req, auth.status, auth.error) EXCEPT
        !.ran = FALSE, !.dbError = lookupFails]

Select(row, fields) == [f \in fields |-> row[f]]

PublicUserFields == {"id", "username", "email", "firstName", "role", "isActive"}

Without(row, field) == [f \in DOMAIN row \ {field} |-> row[f]]

---------------------------------------------------------------------------
(* User controller *)

(* prisma.user.findFirst({where: {OR: [{username}, {email}]}}): the rows *)
(* that match; which of them is returned is the database's choice.       *)
FindUsersByNameOrEmail(username, email) ==
    {i \in DOMAIN users : users[i].username = username \/ users[i].email = email}

(* a row created with the role ADMIN *)
NewAdminRow(id, username, email, password, firstName) ==
    [id |-> id, username |-> toLowerCase(username), email |-> toLowerCase(email),
     passwordHash |-> bcryptHash(password), firstName |-> OrNull(firstName),
     role |-> "ADMIN", isActive |-> TRUE]

NewUserRow(id, username, email, password, firstName) ==
    [id |-> id, username |-> toLowerCase(username), email |-> toLowerCase(email),
     passwordHash |-> bcryptHash(password), firstName |-> OrNull(firstName),
     role |-> "USER", isActive |-> TRUE]

RegisterConflictError(existingUser, username) ==
    IF existingUser.username = toLowerCase(username)
    THEN "Username already exists"
    ELSE "Email already exists"

RegisterUserView(row) == Select(row, PublicUserFields)

(* a body without role and isActive, which register never destructures *)
NoUnreadUser == [role |-> {}, isActive |-> {}]

(* POST /users/register; unread: role and isActive sent in the body *)
RegisterBody(username, email, password, firstName, unread, fail) ==
    LET req == [username |-> username, email |-> email, password |-> password,
                unread |-> unread]
        matches == FindUsersByNameOrEmail(toLowerCase(username), toLowerCase(email))
    IN
    /\ UNCHANGED <<now, contentVars, slugVars, serverVars>>
    /\ IF fail = 1
       THEN /\ resp' = DbFail("register", req, "Failed to register user")
            /\ UNCHANGED userVars
       ELSE IF matches # {}
       THEN \E e \in matches :
            /\ resp' = Fail("register", req, 400,
                            RegisterConflictError(users[e], username))
            /\ UNCHANGED userVars
       ELSE IF fail = 2
       THEN /\ resp' = DbFail("register", req, "Failed to register user")
            /\ UNCHANGED userVars
       ELSE /\ nextUserId <= MaxUsers
            /\ LET row == NewUserRow(nextUserId, username, email, password, firstName)
                   user == RegisterUserView(row)
                   token == jwtSign(user)
               IN /\ users' = [i \in DOMAIN users \cup {row.id} |->
                                  IF i = row.id THEN row ELSE users[i]]
                  /\ nextUserId' = nextUserId + 1
                  /\ issued' = issued \cup {token}
                  /\ registered' = [i \in DOMAIN registered \cup {row.id} |->
                                       IF i = row.id THEN user ELSE registered[i]]
                  /\ resp' = [Ok("register", req, 201, "User registered successfully")
                                 EXCEPT !.user = {user}, !.token = {token}]

(* POST /users/register with a body of the fields register reads *)
Register(username, email, password, firstName, fail) ==
    RegisterBody(username, email, password, firstName, NoUnreadUser, fail)

(* prisma.user.findFirst({where: {username, isActive: true}}) *)
FindActiveUserByName(username) ==
    {i \in DOMAIN users : users[i].username = username /\ users[i].isActive}

LoginUserViewWhole(row) == row

(* const { passwordHash, ...userWithoutPassword } = user *)
LoginUserView(row) == Without(row, "passwordHash")

LoginUnknownUserTold == [status |-> 404, error |-> "User not found"]

LoginUnknownUser == [status |-> 401, error |-> "Invalid credentials"]

LoginWrongPassword == [status |-> 401, error |-> "Invalid credentials"]

Login(username, password, fail) ==
    LET req == [username |-> username, password |-> password]
        found == FindActiveUserByName(toLowerCase(username))
    IN
    /\ UNCHANGED <<users, nextUserId, registered, now, contentVars, slugVars, serverVars>>
    /\ IF fail = 1
       THEN /\ resp' = DbFail("login", req, "Failed to login")
            /\ UNCHANGED issued
       ELSE IF found = {}
       THEN /\ resp' = Fail("login", req, LoginUnknownUser.status,
                            LoginUnknownUser.error)
            /\ UNCHANGED issued
       ELSE LET user == users[CHOOSE i \in found : TRUE] IN
            IF ~bcryptCompare(password, user.passwordHash)
            THEN /\ resp' = Fail("login", req, LoginWrongPassword.status,
                                 LoginWrongPassword.error)
                 /\ UNCHANGED issued
            ELSE LET token == jwtSign(user) IN
                 /\ issued' = issued \cup {token}
                 /\ resp' = [Ok("login", req, 200, "Login successful")
                                EXCEPT !.user = {LoginUserView(user)},
                                       !.token = {token}]

ProfileLookupFirstRow(identity) ==
    IF DOMAIN users # {}
    THEN {Select(users[CHOOSE i \in DOMAIN users : \A j \in DOMAIN users : i <= j],
                 PublicUserFields)}
    ELSE {}

(* prisma.user.findUnique({where: {id: req.user.userId}, select}) *)
ProfileLookup(identity) ==
    IF identity.userId \in DOMAIN users
    THEN {Select(users[identity.userId], PublicUserFields)}
    ELSE {}

(* GET /profile: authenticateToken, then getProfile *)
GetProfile(hdr, fail) ==
    LET req == [hdr |-> hdr]
        auth == authenticateToken(hdr, fail = 1)
    IN
    /\ UNCHANGED <<userVars, now, contentVars, slugVars, serverVars>>
    /\ IF ~auth.next
       THEN resp' = Rejected("profile", req, auth, auth.lookupFailed)
       ELSE LET identity == CHOOSE u \in auth.user : TRUE
                user == ProfileLookup(identity)
            IN
            IF fail = 2
            THEN resp' = [DbFail("profile", req, "Failed to get profile")
                             EXCEPT !.ident = auth.user]
            ELSE IF user = {}
            THEN resp' = [Fail("profile", req, 404, "User not found")
                             EXCEPT !.ident = auth.user]
            ELSE resp' = [Ok("profile", req, 200, "")
                             EXCEPT !.user = user, !.ident = auth.user]

---------------------------------------------------------------------------
(* Environment: time passes; an administrator deactivates or deletes a    *)
(* user row directly in the database.                                     *)

Tick ==
    /\ now < MaxTime
    /\ now' = now + 1
    /\ UNCHANGED <<userVars, contentVars, slugVars, serverVars, resp>>

AdminDeactivateUser(id) ==
    /\ id \in DOMAIN users
    /\ users[id].isActive
    /\ users' = [users EXCEPT ![id].isActive = FALSE]
    /\ UNCHANGED <<nextUserId, issued, registered, now, contentVars, slugVars, serverVars, resp>>

---------------------------------------------------------------------------
(* Article controller.  Database calls: 1 the user lookup of the          *)
(* middleware, 2 and 3 the calls of the controller in the order it makes  *)
(* them.                                                                  *)

TitleInputs == {<<"A", " ", "b">>, <<"a", "-", "b">>, <<"C", "!">>}
IdParams == {<<"1">>, <<"2">>, <<"x">>, <<"1", "x">>}
CategoryIdInputs == {1, 9}

(* an optional request field is the set of its values: {} when absent *)
Given(field) == field # {}
ValueOf(field) == CHOOSE v \in field : TRUE

(* featured || false *)
OrFalse(field) == Given(field) /\ ValueOf(field)

Insert(table, row) ==
    [i \in DOMAIN table \cup {row.id} |-> IF i = row.id THEN row ELSE table[i]]

(* a delete that removes nothing *)
RemoveNothing(table, ids) == table

Remove(table, ids) == [i \in DOMAIN table \ ids |-> table[i]]

(* a lookup that never finds the slug *)
FindBySlugMisses(table, slug) == {}

(* findUnique({where: {slug}}) *)
FindBySlug(table, slug) == {i \in DOMAIN table : table[i].slug = slug}

(* a row created as published *)
NewPublishedArticleRow(id, title, slug, categoryId, featured, authorId) ==
    [id |-> id, title |-> title, slug |-> slug, categoryId |-> categoryId,
     authorId |-> authorId, featured |-> OrFalse(featured), status |-> "PUBLISHED",
     viewCount |-> 0, publishedAt |-> "now", tags |-> {}]

NewArticleRow(id, title, slug, categoryId, featured, authorId) ==
    [id |-> id, title |-> title, slug |-> slug, categoryId |-> categoryId,
     authorId |-> authorId, featured |-> OrFalse(featured), status |-> "DRAFT",
     viewCount |-> 0, publishedAt |-> Null, tags |-> {}]

(* POST /articles: authenticateToken, then createArticle *)
(* a body that carries none of the unread fields *)
NoUnread == [tagIds |-> {}, status |-> {}, authorId |-> {}]

(* an author taken from the body when it names one *)
AuthorFromBody(identity, unread) ==
    IF Given(unread.authorId) THEN ValueOf(unread.authorId) ELSE identity.userId

(* authorId: req.user.userId *)
AuthorOf(identity, unread) == identity.userId

(* unread: the body fields the handler never destructures (tagIds and    *)
(* status of CreateArticleRequest, and an authorId a caller may add)     *)
CreateArticleBody(hdr, title, categoryId, featured, unread, fail) ==
    LET req == [hdr |-> hdr, title |-> title, categoryId |-> categoryId,
                unread |-> unread]
        auth == authenticateToken(hdr, fail = 1)
        slug == slugArticle(title)
    IN
    /\ UNCHANGED <<userVars, now, categories, technologies, projects,
                   nextProjectId, slugVars, serverVars>>
    /\ IF ~auth.next
       THEN /\ resp' = Rejected("createArticle", req, auth,
                                auth.lookupFailed)
            /\ UNCHANGED <<articles, nextArticleId>>
       ELSE IF fail = 2
       THEN /\ resp' = [DbFail("createArticle", req, "Failed to create article")
                           EXCEPT !.ident = auth.user]
            /\ UNCHANGED <<articles, nextArticleId>>
       ELSE IF FindBySlug(articles, slug) # {}
       THEN /\ resp' = [Fail("createArticle", req, 400,
                             "An article with this title already exists")
                           EXCEPT !.ident = auth.user]
            /\ UNCHANGED <<articles, nextArticleId>>
       ELSE IF fail = 3
       THEN /\ resp' = [DbFail("createArticle", req, "Failed to create article")
                           EXCEPT !.ident = auth.user]
            /\ UNCHANGED <<articles, nextArticleId>>
       ELSE IF categoryId \notin categories
       THEN \* Articles_category_id_fkey: the insert throws
            /\ resp' = [Fail("createArticle", req, 500, "Failed to create article")
                           EXCEPT !.ident = auth.user]
            /\ UNCHANGED <<articles, nextArticleId>>
       ELSE /\ nextArticleId <= MaxArticles
            /\ LET row == NewArticleRow(nextArticleId, title, slug, categoryId,
                                        featured, AuthorOf(ValueOf(auth.user), unread))
               IN /\ articles' = Insert(articles, row)
                  /\ nextArticleId' = nextArticleId + 1
                  /\ resp' = [Ok("createArticle", req, 201,
                                 "Article created successfully")
                                 EXCEPT !.data = {row}, !.ident = auth.user]

(* GET /articles/:id: optionalAuth, then getArticleById *)
GetArticleById(hdr, id, fail) ==
    LET req == [hdr |-> hdr, id |-> id]
        auth == optionalAuth(hdr, fail = 1)
        articleId == parseInt(id)
        seen(r) == [r EXCEPT !.nextCalls = auth.nextCalls, !.ident = auth.user]
    IN
    /\ UNCHANGED <<userVars, now, categories, technologies, nextArticleId,
                   projects, nextProjectId, slugVars, serverVars>>
    /\ IF auth.nextCalls = 0
       THEN /\ resp' = [Fail("getArticleById", req, auth.status, "")
                           EXCEPT !.ran = FALSE]
            /\ UNCHANGED articles
       ELSE IF articleId.nan
       THEN /\ resp' = seen(Fail("getArticleById", req, 400, "Invalid article ID"))
            /\ UNCHANGED articles
       ELSE IF fail = 2
       THEN /\ resp' = seen(DbFail("getArticleById", req, "Failed to get article"))
            /\ UNCHANGED articles
       ELSE IF articleId.val \notin DOMAIN articles
       THEN /\ resp' = seen(Fail("getArticleById", req, 404, "Article not found"))
            /\ UNCHANGED articles
       ELSE IF fail = 3
       THEN /\ resp' = seen(DbFail("getArticleById", req, "Failed to get article"))
            /\ UNCHANGED articles
       ELSE /\ articles[articleId.val].viewCount < MaxViews
            /\ articles' = [articles EXCEPT ![articleId.val].viewCount = @ + 1]
            /\ resp' = seen([Ok("getArticleById", req, 200, "")
                                EXCEPT !.data = {articles[articleId.val]}])

(* findMany({skip, take, orderBy: {createdAt: 'desc'}}): rows are created *)
(* in id order, so the newest row is the one with the greatest id.        *)
RECURSIVE NewestFirst(_, _)
NewestFirst(table, ids) ==
    IF ids = {} THEN <<>>
    ELSE LET m == CHOOSE i \in ids : \A j \in ids : j <= i
         IN <<table[m]>> \o NewestFirst(table, ids \ {m})

SkipTake(rows, skip, take) ==
    SubSeq(rows, skip + 1, IF skip + take < Len(rows) THEN skip + take ELSE Len(rows))

(* Math.ceil(total / limit), limit >= 1 *)
CeilDiv(total, limit) == (total + limit - 1) \div limit

(* parseInt(param) || fallback *)
ParseIntOr(param, fallback) ==
    LET p == parseInt(param) IN
    IF p.nan \/ p.val = 0 THEN fallback ELSE p.val

(* GET /articles: optionalAuth, then getAllArticles *)
(* the query's category, like its tag, author, status, featured and search, *)
(* is never read by the handler                                           *)
GetAllArticles(hdr, pageParam, limitParam, category, fail) ==
    LET req == [hdr |-> hdr, page |-> pageParam, limit |-> limitParam,
                category |-> category]
        auth == optionalAuth(hdr, fail = 1)
        page == ParseIntOr(pageParam, 1)
        limit == ParseIntOr(limitParam, 10)
        skip == (page - 1) * limit
        total == Cardinality(DOMAIN articles)
        seen(r) == [r EXCEPT !.nextCalls = auth.nextCalls, !.ident = auth.user]
    IN
    /\ UNCHANGED <<userVars, now, contentVars, slugVars, serverVars>>
    /\ IF auth.nextCalls = 0
       THEN resp' = [Fail("getAllArticles", req, auth.status, "")
                        EXCEPT !.ran = FALSE]
       ELSE IF fail \in {2, 3}
       THEN resp' = seen(DbFail("getAllArticles", req, "Failed to get articles"))
       ELSE resp' = seen([Ok("getAllArticles", req, 200, "") EXCEPT
                !.list = SkipTake(NewestFirst(articles, DOMAIN articles), skip, limit),
                !.pagination = {[page |-> page, limit |-> limit, total |-> total,
                                 totalPages |-> CeilDiv(total, limit)]}])

---------------------------------------------------------------------------
(* Project controller.  Database calls: 1 the user lookup of the          *)
(* middleware, 2.. the calls of the controller in the order it makes them.*)

Range(seq) == {seq[i] : i \in 1..Len(seq)}

(* technologies: {create: ids.map(connect)}: the nested insert throws on  *)
(* an id that is no Technologies row and on a repeated (project, tech).   *)
LinksInsertable(ids) ==
    /\ Range(ids) \subseteq technologies
    /\ Cardinality(Range(ids)) = Len(ids)

NewProjectRow(id, title, slug, description, technologyIds, featured, status, authorId) ==
    [id |-> id, title |-> title, slug |-> slug, description |-> description,
     authorId |-> authorId, featured |-> OrFalse(featured),
     status |-> IF Given(status) THEN ValueOf(status) ELSE "PLANNING",
     technologies |-> IF Given(technologyIds) /\ Len(ValueOf(technologyIds)) > 0
                      THEN Range(ValueOf(technologyIds)) ELSE {}]

(* POST /articles with a body of the fields createArticle reads *)
CreateArticle(hdr, title, categoryId, featured, fail) ==
    CreateArticleBody(hdr, title, categoryId, featured, NoUnread, fail)

(* POST /projects: authenticateToken, then createProject *)
(* unread: an authorId in the body, which the handler never destructures *)
CreateProjectBody(hdr, title, description, technologyIds, featured, status, unread, fail) ==
    LET req == [hdr |-> hdr, title |-> title, technologyIds |-> technologyIds,
                unread |-> unread]
        auth == authenticateToken(hdr, fail = 1)
        slug == slugProject(title)
        done(r) == [r EXCEPT !.ident = auth.user]
    IN
    /\ UNCHANGED <<userVars, now, categories, technologies, articles,
                   nextArticleId, slugVars, serverVars>>
    /\ IF ~auth.next
       THEN /\ resp' = Rejected("createProject", req, auth,
                                auth.lookupFailed)
            /\ UNCHANGED <<projects, nextProjectId>>
       ELSE IF fail = 2
       THEN /\ resp' = done(DbFail("createProject", req, "Failed to create project"))
            /\ UNCHANGED <<projects, nextProjectId>>
       ELSE IF FindBySlug(projects, slug) # {}
       THEN /\ resp' = done(Fail("createProject", req, 400,
                                 "A project with this title already exists"))
            /\ UNCHANGED <<projects, nextProjectId>>
       ELSE IF fail = 3
       THEN /\ resp' = done(DbFail("createProject", req, "Failed to create project"))
            /\ UNCHANGED <<projects, nextProjectId>>
       ELSE IF Given(technologyIds) /\ ~LinksInsertable(ValueOf(technologyIds))
       THEN /\ resp' = done(Fail("createProject", req, 500,
                                 "Failed to create project"))
            /\ UNCHANGED <<projects, nextProjectId>>
       ELSE /\ nextProjectId <= MaxProjects
            /\ LET row == NewProjectRow(nextProjectId, title, slug, description,
                                        technologyIds, featured, status,
                                        AuthorOf(ValueOf(auth.user), unread))
               IN /\ projects' = Insert(projects, row)
                  /\ nextProjectId' = nextProjectId + 1
                  /\ resp' = done([Ok("createProject", req, 201,
                                      "Project created successfully")
                                      EXCEPT !.data = {row}])

(* POST /projects with a body of the fields createProject reads *)
CreateProject(hdr, title, description, technologyIds, featured, status, fail) ==
    CreateProjectBody(hdr, title, description, technologyIds, featured, status,
                      NoUnread, fail)

(* GET /projects/:id: getProjectById; no middleware reads the database *)
GetProjectById(id, fail) ==
    LET req == [id |-> id]
        projectId == parseInt(id)
    IN
    /\ UNCHANGED <<userVars, now, contentVars, slugVars, serverVars>>
    /\ IF projectId.nan
       THEN resp' = Fail("getProjectById", req, 400, "Invalid project ID")
       ELSE IF fail = 1
       THEN resp' = DbFail("getProjectById", req, "Failed to get project")
       ELSE IF projectId.val \notin DOMAIN projects
       THEN resp' = Fail("getProjectById", req, 404, "Project not found")
       ELSE resp' = [Ok("getProjectById", req, 200, "")
                        EXCEPT !.data = {projects[projectId.val]}]

(* a title that is '' (or absent) is falsy *)
Truthy(title) == Given(title) /\ ValueOf(title) # <<>>

(* seed-technologies: the slug of the technology row with the given id *)
TechnologySlugs ==
    <<"nodejs", "expressjs", "postgresql", "prisma", "typescript", "react">>

(* {contains: search, mode: 'insensitive'} on a column *)
Contains(text, search) ==
    \E k \in 0..(Len(text) - Len(search)) :
        \A j \in 1..Len(search) :
            ToLowerChar(text[k + j]) = ToLowerChar(search[j])

(* the characters of a stored description *)
DescriptionText(description) ==
    IF description = "d1" THEN <<"d", "1">>
    ELSE IF description = "d2" THEN <<"d", "2">>
    ELSE <<>>

(* the where of getAllProjects: AND of the filters the query supplies;   *)
(* search, technology and status count when truthy, featured when given; *)
(* the rows here are created without content, which no search matches    *)
ProjectMatches(row, search, technology, status, featured) ==
    /\ Truthy(search)
        => \/ Contains(row.title, ValueOf(search))
           \/ Contains(DescriptionText(row.description), ValueOf(search))
    /\ (Given(technology) /\ ValueOf(technology) # "")
        => \E k \in row.technologies : TechnologySlugs[k] = ValueOf(technology)
    /\ (Given(status) /\ ValueOf(status) # "") => row.status = ValueOf(status)
    /\ Given(featured) => row.featured = (ValueOf(featured) = "true")

(* GET /projects: getAllProjects; findMany and count in one transaction *)
GetAllProjects(pageParam, limitParam, search, technology, status, featured, fail) ==
    LET req == [page |-> pageParam, limit |-> limitParam, search |-> search,
                technology |-> technology, status |-> status, featured |-> featured]
        page == IF pageParam = <<>> THEN [nan |-> FALSE, val |-> 1]
                ELSE parseInt(pageParam)
        take == IF limitParam = <<>> THEN [nan |-> FALSE, val |-> 10]
                ELSE parseInt(limitParam)
        skip == (page.val - 1) * take.val
        ids == {i \in DOMAIN projects :
                    ProjectMatches(projects[i], search, technology, status, featured)}
        total == Cardinality(ids)
    IN
    /\ UNCHANGED <<userVars, now, contentVars, slugVars, serverVars>>
    /\ IF fail = 1
       THEN resp' = DbFail("getAllProjects", req, "Failed to get projects")
       ELSE IF page.nan \/ take.nan \/ skip < 0
       THEN \* take or skip is NaN or negative: findMany throws
            resp' = Fail("getAllProjects", req, 500, "Failed to get projects")
       ELSE resp' = [Ok("getAllProjects", req, 200, "") EXCEPT
                !.list = SkipTake(NewestFirst(projects, ids), skip, take.val),
                !.pagination = {[page |-> page.val, limit |-> take.val,
                                 total |-> total,
                                 totalPages |-> IF take.val = 0 THEN Null
                                                ELSE CeilDiv(total, take.val)]}]

---------------------------------------------------------------------------
(* Server: the rate limiter, the health routes, the 404 handler and the   *)
(* error middleware.                                                      *)

(* max: parseInt(process.env.RATE_LIMIT_MAX_REQUESTS || '100') *)
RateLimitMax == 100

(* res.json(object) of a handler that sends no success field *)
Plain(op, req, status, object) ==
    [Ok(op, req, status, "") EXCEPT
        !.body = "object", !.success = FALSE, !.data = {object}]

(* the limiter's answer: res.status(429).send(message), a string *)
TooManyRequests(op, req) ==
    [Ok(op, req, 429, "Too many requests from this IP, please try again later.")
        EXCEPT !.body = "text", !.success = FALSE, !.ran = FALSE]

(* app.use('/api', limiter): the request is counted, and answered 429     *)
(* when the window already holds max requests; otherwise the route        *)
(* answers.  Counts beyond max + 1 behave alike and are not kept apart.   *)
limiter(op, req, answer) ==
    /\ hits' = IF hits <= RateLimitMax THEN hits + 1 ELSE hits
    /\ resp' = IF hits + 1 > RateLimitMax THEN TooManyRequests(op, req) ELSE answer
    /\ UNCHANGED <<userVars, now, contentVars, slugVars, comments, nextCommentId,
                   fetches, served>>

(* a route outside /api: the limiter does not see the request *)
Unlimited(answer) ==
    /\ resp' = answer
    /\ UNCHANGED <<userVars, now, contentVars, slugVars, serverVars>>

(* the limiter's window (windowMs) ends *)
WindowReset ==
    /\ hits > 0
    /\ hits' = 0
    /\ UNCHANGED <<userVars, now, contentVars, slugVars, comments, nextCommentId,
                   fetches, served, resp>>

(* GET /: the root endpoint *)
Root ==
    Unlimited(Plain("root", [path |-> "/"], 200, [status |-> "running"]))

(* GET /health; dbDown: the database is unreachable, which the handler    *)
(* has no way to notice                                                   *)
RootHealth(dbDown) ==
    Unlimited(Plain("rootHealth", [dbDown |-> dbDown], 200, [status |-> "ok"]))

(* GET /api/v1/health *)
Health(dbDown) ==
    LET req == [dbDown |-> dbDown]
    IN limiter("health", req, Plain("health", req, 200, [status |-> "ok"]))

(* GET /api/v1/status *)
Status ==
    LET req == [path |-> "/api/v1/status"]
    IN limiter("status", req, Plain("status", req, 200, [status |-> "running"]))

(* GET /api/v1/health/db: $queryRaw, user.count, article.count and        *)
(* project.count; fail is the ordinal of the call that throws             *)
HealthDb(fail) ==
    LET req == [fail |-> fail]
        tables == [users |-> Cardinality(DOMAIN users),
                   articles |-> Cardinality(DOMAIN articles),
                   projects |-> Cardinality(DOMAIN projects)]
    IN limiter("healthDb", req,
               IF fail \in 1..4
               THEN [Plain("healthDb", req, 503,
                           [status |-> "unhealthy", database |-> "disconnected"])
                        EXCEPT !.dbError = TRUE]
               ELSE Plain("healthDb", req, 200,
                          [status |-> "healthy", database |-> "connected",
                           tables |-> tables]))

(* app.use('*'): no route matched *)
RouteNotFound(underApi) ==
    LET req == [underApi |-> underApi]
        answer == Fail("routeNotFound", req, 404, "Route not found")
    IN IF underApi THEN limiter("routeNotFound", req, answer) ELSE Unlimited(answer)

(* express.json() fails on a malformed body of a request under /api and   *)
(* passes the error to the error middleware                               *)
ErrorHandler(production) ==
    LET req == [production |-> production]
    IN limiter("errorHandler", req,
               Fail("errorHandler", req, 500,
                    IF production THEN "Internal server error" ELSE "err.message"))

(* an ownership check that lets every caller through *)
NotOwnerNever(row, identity) == FALSE

(* existingProject.authorId !== req.user.userId *)
NotOwner(row, identity) == row.authorId # identity.userId

(* a conflict check that also counts the project being updated *)
SlugConflictAnyRow(slug, projectId) == {i \in DOMAIN projects : projects[i].slug = slug}

(* prisma.project.findFirst({where: {slug, id: {not: projectId}}}) *)
SlugConflict(slug, projectId) ==
    {i \in DOMAIN projects : projects[i].slug = slug /\ i # projectId}

(* an update that adds the supplied technologies to the links it finds *)
UpdatedProjectRowMerging(row, title, slug, description, technologyIds, featured, status) ==
    [row EXCEPT
        !.title = IF Truthy(title) THEN ValueOf(title) ELSE @,
        !.slug = IF Truthy(title) THEN slug ELSE @,
        !.technologies = IF Given(technologyIds)
                         THEN @ \cup Range(ValueOf(technologyIds)) ELSE @]

(* an update that writes every column, supplied or not *)
UpdatedProjectRowWhole(row, title, slug, description, technologyIds, featured, status) ==
    [row EXCEPT
        !.title = IF Truthy(title) THEN ValueOf(title) ELSE @,
        !.slug = IF Truthy(title) THEN slug ELSE @,
        !.description = IF Given(description) THEN ValueOf(description) ELSE "",
        !.featured = OrFalse(featured),
        !.status = IF Given(status) THEN ValueOf(status) ELSE @,
        !.technologies = IF Given(technologyIds)
                         THEN Range(ValueOf(technologyIds)) ELSE {}]

(* the data of prisma.project.update: only what the body supplied *)
UpdatedProjectRow(row, title, slug, description, technologyIds, featured, status) ==
    [row EXCEPT
        !.title = IF Truthy(title) THEN ValueOf(title) ELSE @,
        !.slug = IF Truthy(title) THEN slug ELSE @,
        !.description = IF Given(description) THEN ValueOf(description) ELSE @,
        !.featured = IF Given(featured) THEN ValueOf(featured) ELSE @,
        !.status = IF Given(status) THEN ValueOf(status) ELSE @,
        !.technologies = IF Given(technologyIds)
                         THEN Range(ValueOf(technologyIds)) ELSE @]

(* PUT /projects/:id: authenticateToken, then updateProject *)
UpdateProject(hdr, id, title, description, technologyIds, featured, status, fail) ==
    LET req == [hdr |-> hdr, id |-> id, title |-> title,
                description |-> description, technologyIds |-> technologyIds,
                featured |-> featured, status |-> status]
        auth == authenticateToken(hdr, fail = 1)
        projectId == parseInt(id)
        done(r) == [r EXCEPT !.ident = auth.user]
    IN
    /\ UNCHANGED <<userVars, now, categories, technologies, articles,
                   nextArticleId, nextProjectId, slugVars, serverVars>>
    /\ IF ~auth.next
       THEN /\ resp' = Rejected("updateProject", req, auth,
                                auth.lookupFailed)
            /\ UNCHANGED projects
       ELSE IF projectId.nan
       THEN /\ resp' = done(Fail("updateProject", req, 400, "Invalid project ID"))
            /\ UNCHANGED projects
       ELSE IF fail = 2
       THEN /\ resp' = done(DbFail("updateProject", req, "Failed to update project"))
            /\ UNCHANGED projects
       ELSE IF projectId.val \notin DOMAIN projects
       THEN /\ resp' = done(Fail("updateProject", req, 404, "Project not found"))
            /\ UNCHANGED projects
       ELSE IF NotOwner(projects[projectId.val], ValueOf(auth.user))
       THEN /\ resp' = done(Fail("updateProject", req, 403,
                                 "You can only update your own projects"))
            /\ UNCHANGED projects
       ELSE LET existing == projects[projectId.val]
                slug == IF Truthy(title) THEN slugProjectUpdate(ValueOf(title))
                        ELSE existing.slug
            IN
            IF Truthy(title) /\ fail = 3
            THEN /\ resp' = done(DbFail("updateProject", req,
                                        "Failed to update project"))
                 /\ UNCHANGED projects
            ELSE IF Truthy(title) /\ SlugConflict(slug, projectId.val) # {}
            THEN /\ resp' = done(Fail("updateProject", req, 400,
                                      "A project with this title already exists"))
                 /\ UNCHANGED projects
            ELSE IF fail = 4
            THEN /\ resp' = done(DbFail("updateProject", req,
                                        "Failed to update project"))
                 /\ UNCHANGED projects
            ELSE IF Given(technologyIds) /\ ~LinksInsertable(ValueOf(technologyIds))
            THEN /\ resp' = done(Fail("updateProject", req, 500,
                                      "Failed to update project"))
                 /\ UNCHANGED projects
            ELSE LET row == UpdatedProjectRow(existing, title, slug, description,
                                              technologyIds, featured, status)
                 IN /\ projects' = [projects EXCEPT ![projectId.val] = row]
                    /\ resp' = done([Ok("updateProject", req, 200,
                                        "Project updated successfully")
                                        EXCEPT !.data = {row}])

(* DELETE /projects/:id: authenticateToken, then deleteProject *)
DeleteProject(hdr, id, fail) ==
    LET req == [hdr |-> hdr, id |-> id]
        auth == authenticateToken(hdr, fail = 1)
        projectId == parseInt(id)
        done(r) == [r EXCEPT !.ident = auth.user]
    IN
    /\ UNCHANGED <<userVars, now, categories, technologies, articles,
                   nextArticleId, nextProjectId, slugVars, serverVars>>
    /\ IF ~auth.next
       THEN /\ resp' = Rejected("deleteProject", req, auth,
                                auth.lookupFailed)
            /\ UNCHANGED projects
       ELSE IF projectId.nan
       THEN /\ resp' = done(Fail("deleteProject", req, 400, "Invalid project ID"))
            /\ UNCHANGED projects
       ELSE IF fail = 2
       THEN /\ resp' = done(DbFail("deleteProject", req, "Failed to delete project"))
            /\ UNCHANGED projects
       ELSE IF projectId.val \notin DOMAIN projects
       THEN /\ resp' = done(Fail("deleteProject", req, 404, "Project not found"))
            /\ UNCHANGED projects
       ELSE IF NotOwner(projects[projectId.val], ValueOf(auth.user))
       THEN /\ resp' = done(Fail("deleteProject", req, 403,
                                 "You can only delete your own projects"))
            /\ UNCHANGED projects
       ELSE IF fail = 3
       THEN /\ resp' = done(DbFail("deleteProject", req, "Failed to delete project"))
            /\ UNCHANGED projects
       ELSE /\ projects' = Remove(projects, {projectId.val})
            /\ resp' = done(Ok("deleteProject", req, 200,
                               "Project deleted successfully"))

(* a delete of the Users row alone, as without ON DELETE CASCADE *)
AdminDeleteUserNoCascade(id) ==
    /\ id \in DOMAIN users
    /\ users' = Remove(users, {id})
    /\ registered' = Remove(registered, {id})
    /\ UNCHANGED <<nextUserId, issued, now, contentVars, slugVars, serverVars, resp>>

(* prisma.user.delete: the row goes, and with it (ON DELETE CASCADE) the  *)
(* user's articles and projects                                           *)
AdminDeleteUser(id) ==
    /\ id \in DOMAIN users
    /\ users' = Remove(users, {id})
    /\ registered' = Remove(registered, {id})
    /\ articles' = Remove(articles, {i \in DOMAIN articles : articles[i].authorId = id})
    /\ projects' = Remove(projects, {i \in DOMAIN projects : projects[i].authorId = id})
    /\ comments' = Remove(comments, {c \in DOMAIN comments :
                                        \/ comments[c].authorId = id
                                        \/ comments[c].articleId \notin DOMAIN articles'})
    /\ UNCHANGED <<nextUserId, issued, now, categories, technologies,
                   nextArticleId, nextProjectId, slugVars, nextCommentId, hits,
                   fetches, served, resp>>

(* prisma.comment.create: Comments.author_id and Comments.article_id are  *)
(* foreign keys, so the insert succeeds only when both rows exist         *)
AdminInsertComment(authorId, articleId) ==
    /\ nextCommentId <= MaxComments
    /\ authorId \in DOMAIN users
    /\ articleId \in DOMAIN articles
    /\ comments' = Insert(comments, [id |-> nextCommentId, authorId |-> authorId,
                                     articleId |-> articleId])
    /\ nextCommentId' = nextCommentId + 1
    /\ UNCHANGED <<userVars, now, contentVars, slugVars, hits, fetches, served, resp>>

---------------------------------------------------------------------------
(* The user routes from an empty database *)

Callers == {"c1", "c2"}

AnonymousHeader == [present |-> FALSE, cred |-> {}]

NoFetch ==
    [pc |-> "idle", req |-> [hdr |-> AnonymousHeader, id |-> <<>>], id |-> 0,
     row |-> {}, ident |-> {}]

(* no comment stored, a fresh rate-limit window, no request in flight *)
ServerIdle ==
    /\ comments = <<>>
    /\ nextCommentId = 1
    /\ hits = 0
    /\ fetches = [c \in Callers |-> NoFetch]
    /\ served = <<>>

NoResponse ==
    [n |-> 0, op |-> "none", req |-> [none |-> TRUE], status |-> 0,
     body |-> "none", success |-> FALSE, error |-> "", message |-> "", user |-> {}, token |-> {},
     data |-> {}, list |-> <<>>, pagination |-> {}, ran |-> FALSE,
     dbError |-> FALSE, nextCalls |-> 0, ident |-> {}]

Init ==
    /\ users = <<>>
    /\ nextUserId = 1
    /\ issued = {}
    /\ now = 0
    /\ registered = <<>>
    /\ categories = {}
    /\ technologies = {}
    /\ articles = <<>>
    /\ nextArticleId = 1
    /\ projects = <<>>
    /\ nextProjectId = 1
    /\ slugIn = <<>>
    /\ slugOut = <<>>
    /\ resp = NoResponse
    /\ ServerIdle

RegisterRequest ==
    \E username \in UsernameInputs, email \in EmailInputs,
       password \in RegisterPasswords, firstName \in FirstNameInputs,
       fail \in 0..2 :
        Register(username, email, password, firstName, fail)

LoginRequest ==
    \E username \in UsernameInputs, password \in PasswordInputs, fail \in 0..1 :
        Login(username, password, fail)

ProfileRequest == \E hdr \in Headers, fail \in 0..2 : GetProfile(hdr, fail)

DeactivateUser == \E id \in DOMAIN users : AdminDeactivateUser(id)

Next ==
    \/ RegisterRequest
    \/ LoginRequest
    \/ ProfileRequest
    \/ DeactivateUser
    \/ Tick

Spec == Init /\ [][Next]_vars

---------------------------------------------------------------------------
(* The content routes, from the database after two registrations and the  *)
(* two seed requests (seed-categories: 4 rows, seed-technologies: 6 rows) *)

SeedCategoryIds == 1..4
SeedTechnologyIds == 1..6

SeededUsers ==
    Insert(Insert(<<>>, NewUserRow(1, <<"A">>, <<"x">>, "pw1", "Ann")),
           NewUserRow(2, <<"b">>, <<"Y">>, "pw1", "Ann"))

SeededDatabase ==
    /\ now = 0
    /\ users = SeededUsers
    /\ nextUserId = 3
    /\ registered = [i \in DOMAIN SeededUsers |-> RegisterUserView(SeededUsers[i])]
    /\ issued = {jwtSign(RegisterUserView(SeededUsers[i])) : i \in DOMAIN SeededUsers}
    /\ categories = SeedCategoryIds
    /\ technologies = SeedTechnologyIds
    /\ articles = <<>>
    /\ nextArticleId = 1
    /\ projects = <<>>
    /\ nextProjectId = 1
    /\ resp = NoResponse
    /\ ServerIdle

InitSeeded ==
    /\ SeededDatabase
    /\ slugIn = <<>>
    /\ slugOut = <<>>

DeleteUser == \E id \in DOMAIN users : AdminDeleteUser(id)

(* Every route behind authenticateToken, with every kind of Authorization *)
(* header, while users are deactivated and deleted and tokens expire.     *)

GuardedCreateArticle ==
    /\ nextArticleId <= MaxGuardRows
    /\ \E hdr \in Headers, fail \in 0..1 : CreateArticle(hdr, <<"C", "!">>, 1, {}, fail)

GuardedCreateProject ==
    /\ nextProjectId <= MaxGuardRows
    /\ \E hdr \in Headers, fail \in 0..1 :
        CreateProject(hdr, <<"C", "!">>, "d1", {}, {}, {}, fail)

GuardedUpdateProject ==
    \E hdr \in Headers, id \in {<<"1">>, <<"x">>}, fail \in 0..1 :
        UpdateProject(hdr, id, {}, {"d2"}, {}, {}, {}, fail)

GuardedDeleteProject ==
    \E hdr \in Headers, id \in {<<"1">>, <<"x">>}, fail \in 0..1 :
        DeleteProject(hdr, id, fail)

OptionalGetArticle ==
    \E hdr \in Headers, id \in {<<"1">>, <<"x">>}, fail \in 0..1 :
        GetArticleById(hdr, id, fail)

OptionalListArticles ==
    \E hdr \in Headers, fail \in 0..1 : GetAllArticles(hdr, <<>>, <<>>, {}, fail)

NextGuard ==
    \/ ProfileRequest
    \/ GuardedCreateArticle
    \/ GuardedCreateProject
    \/ GuardedUpdateProject
    \/ GuardedDeleteProject
    \/ DeactivateUser
    \/ DeleteUser
    \/ Tick

SpecGuard == InitSeeded /\ [][NextGuard]_vars

(* The two routes behind optionalAuth, in the same environment *)

NextOptional ==
    \/ OptionalGetArticle
    \/ OptionalListArticles
    \/ GuardedCreateArticle
    \/ DeactivateUser
    \/ DeleteUser
    \/ Tick

SpecOptional == InitSeeded /\ [][NextOptional]_vars

(* The two create routes, called by the first registered user *)

OwnerHeaders == {[present |-> TRUE, cred |-> {t}] : t \in {i \in issued : i.userId = 1}}

TechnologyIdInputs == {{}, {<<>>}, {<<2, 1>>}, {<<9>>}, {<<1, 1>>}}

CreateArticleRequest ==
    \E hdr \in OwnerHeaders, title \in TitleInputs, categoryId \in CategoryIdInputs,
       fail \in 0..3 :
        CreateArticle(hdr, title, categoryId, {}, fail)

CreateProjectRequest ==
    \E hdr \in OwnerHeaders, title \in TitleInputs,
       technologyIds \in TechnologyIdInputs, fail \in 0..3 :
        CreateProject(hdr, title, "d1", technologyIds, {}, {}, fail)

NextCreate ==
    \/ CreateArticleRequest
    \/ CreateProjectRequest

SpecCreate == InitSeeded /\ [][NextCreate]_vars

(* Detail fetches of articles by two callers whose handlers interleave at  *)
(* their awaits: findUnique (line 72) and update (line 98) are separate   *)
(* steps, and articles are created and users deleted in between.          *)

ServedCount(id) == IF id \in DOMAIN served THEN served[id] ELSE 0

(* a read-modify-write of the row the handler fetched *)
IncrementFromSnapshot(current, snapshot) == snapshot + 1

(* update({data: {viewCount: {increment: 1}}}): SET view_count = view_count + 1 *)
IncrementInDatabase(current, snapshot) == current + 1

(* getArticleById up to and including findUnique *)
FetchFind(c, hdr, id, fail) ==
    LET req == [hdr |-> hdr, id |-> id]
        auth == optionalAuth(hdr, fail = 1)
        articleId == parseInt(id)
        seen(r) == [r EXCEPT !.nextCalls = auth.nextCalls, !.ident = auth.user]
    IN
    /\ fetches[c].pc = "idle"
    /\ UNCHANGED <<userVars, now, contentVars, slugVars, comments, nextCommentId,
                   hits, served>>
    /\ IF articleId.nan
       THEN /\ resp' = seen(Fail("getArticleById", req, 400, "Invalid article ID"))
            /\ UNCHANGED fetches
       ELSE IF fail = 2
       THEN /\ resp' = seen(DbFail("getArticleById", req, "Failed to get article"))
            /\ UNCHANGED fetches
       ELSE IF articleId.val \notin DOMAIN articles
       THEN /\ resp' = seen(Fail("getArticleById", req, 404, "Article not found"))
            /\ UNCHANGED fetches
       ELSE /\ fetches' = [fetches EXCEPT ![c] =
                              [pc |-> "found", req |-> req, id |-> articleId.val,
                               row |-> {articles[articleId.val]}, ident |-> auth.user]]
            /\ UNCHANGED resp

(* getArticleById from the update to the response *)
FetchIncrement(c, fail) ==
    LET f == fetches[c]
        req == f.req
        seen(r) == [r EXCEPT !.nextCalls = 1, !.ident = f.ident]
    IN
    /\ f.pc = "found"
    /\ fetches' = [fetches EXCEPT ![c] = NoFetch]
    /\ UNCHANGED <<userVars, now, categories, technologies, nextArticleId,
                   projects, nextProjectId, slugVars, comments, nextCommentId,
                   hits>>
    /\ IF fail = 3
       THEN /\ resp' = seen(DbFail("getArticleById", req, "Failed to get article"))
            /\ UNCHANGED <<articles, served>>
       ELSE IF f.id \notin DOMAIN articles
       THEN \* the row was deleted after findUnique: update throws
            /\ resp' = seen(Fail("getArticleById", req, 500, "Failed to get article"))
            /\ UNCHANGED <<articles, served>>
       ELSE /\ articles[f.id].viewCount < MaxViews
            /\ articles' = [articles EXCEPT ![f.id].viewCount =
                               IncrementInDatabase(@, (CHOOSE r \in f.row : TRUE).viewCount)]
            /\ served' = [i \in DOMAIN served \cup {f.id} |-> 
                             IF i = f.id THEN ServedCount(i) + 1 ELSE served[i]]
            /\ resp' = seen([Ok("getArticleById", req, 200, "") EXCEPT !.data = f.row])

FetchFindStep ==
    \E c \in Callers, hdr \in {AnonymousHeader} \cup OwnerHeaders,
       id \in {<<"1">>, <<"x">>}, fail \in 0..2 :
        FetchFind(c, hdr, id, fail)

FetchIncrementStep == \E c \in Callers, fail \in {0, 3} : FetchIncrement(c, fail)

ViewsCreateArticle ==
    \E hdr \in OwnerHeaders : CreateArticle(hdr, <<"C", "!">>, 1, {}, 0)

NextViews ==
    \/ FetchFindStep
    \/ FetchIncrementStep
    \/ ViewsCreateArticle
    \/ DeleteUser

SpecViews == InitSeeded /\ [][NextViews]_vars

(* The two detail routes, on every kind of id parameter *)

DetailGetArticle ==
    \E id \in IdParams, fail \in 0..3 : GetArticleById(AnonymousHeader, id, fail)

DetailGetProject == \E id \in IdParams, fail \in 0..1 : GetProjectById(id, fail)

DetailCreateProject ==
    \E hdr \in OwnerHeaders, technologyIds \in {{}, {<<2, 1>>}} :
        CreateProject(hdr, <<"C", "!">>, "d1", technologyIds, {}, {}, 0)

NextDetail ==
    \/ DetailGetArticle
    \/ DetailGetProject
    \/ ViewsCreateArticle
    \/ DetailCreateProject

SpecDetail == InitSeeded /\ [][NextDetail]_vars

(* The project routes, called by both registered users *)

UserHeaders == {[present |-> TRUE, cred |-> {t}] : t \in issued}

ProjectsCreate ==
    \E hdr \in UserHeaders :
        CreateProject(hdr, <<"C", "!">>, "d1", {<<2, 1>>}, {}, {}, 0)

ProjectsUpdate ==
    \E hdr \in UserHeaders, id \in {<<"1">>, <<"2">>},
       title \in {{}, {<<>>}, {<<"A", " ", "b">>}},
       description \in {{}, {"d2"}}, technologyIds \in {{}, {<<1>>}},
       fail \in {0, 4} :
        UpdateProject(hdr, id, title, description, technologyIds, {}, {}, fail)

ProjectsDelete ==
    \E hdr \in UserHeaders, id \in {<<"1">>, <<"2">>}, fail \in {0, 3} :
        DeleteProject(hdr, id, fail)

ProjectsGet == \E id \in {<<"1">>, <<"2">>}, fail \in 0..1 : GetProjectById(id, fail)

NextProjects ==
    \/ ProjectsCreate
    \/ ProjectsUpdate
    \/ ProjectsDelete
    \/ ProjectsGet

SpecProjects == InitSeeded /\ [][NextProjects]_vars

(* Content of both users, comments on it, and the deletion of users *)

CascadeCreateArticle ==
    \E hdr \in UserHeaders, title \in {<<"C", "!">>, <<"a", "-", "b">>} :
        CreateArticle(hdr, title, 1, {}, 0)

InsertComment ==
    \E authorId \in 1..MaxUsers, articleId \in 1..MaxArticles :
        AdminInsertComment(authorId, articleId)

NextCascade ==
    \/ CascadeCreateArticle
    \/ ProjectsCreate
    \/ InsertComment
    \/ ProjectsDelete
    \/ DeleteUser

SpecCascade == InitSeeded /\ [][NextCascade]_vars

(* The three slug derivations on every title of up to MaxTitleLen characters *)

(* Creates and updates by two callers whose handlers interleave between  *)
(* their reads (the user lookup, findUnique, findFirst) and their write. *)
(* The reads of one handler are taken together: whatever they return,    *)
(* the write that follows is checked by the database alone.              *)

(* Articles_slug_key, Projects_slug_key: no other row holds the slug *)
UniqueSlugUnenforced(table, slug, self) == FALSE

UniqueSlugViolated(table, slug, self) ==
    \E i \in DOMAIN table : i # self /\ table[i].slug = slug

InFlight(pc, req, id, ident) ==
    [pc |-> pc, req |-> req, id |-> id, row |-> {}, ident |-> ident]

(* createArticle up to prisma.article.create *)
CreateArticleReads(c, hdr, title, categoryId) ==
    LET auth == authenticateToken(hdr, FALSE)
        req == [hdr |-> hdr, title |-> title, categoryId |-> categoryId,
                unread |-> NoUnread]
    IN
    /\ fetches[c].pc = "idle"
    /\ IF ~auth.next \/ FindBySlug(articles, slugArticle(title)) # {}
       THEN CreateArticle(hdr, title, categoryId, {}, 0)
       ELSE /\ fetches' = [fetches EXCEPT ![c] =
                              InFlight("createArticle", req, 0, auth.user)]
            /\ UNCHANGED <<userVars, now, contentVars, slugVars, comments,
                           nextCommentId, hits, served, resp>>

(* prisma.article.create and the response *)
CreateArticleWrite(c) ==
    LET f == fetches[c]
        slug == slugArticle(f.req.title)
        done(r) == [r EXCEPT !.ident = f.ident]
    IN
    /\ f.pc = "createArticle"
    /\ fetches' = [fetches EXCEPT ![c] = NoFetch]
    /\ UNCHANGED <<userVars, now, categories, technologies, projects,
                   nextProjectId, slugVars, comments, nextCommentId, hits, served>>
    /\ IF \/ UniqueSlugViolated(articles, slug, 0)
          \/ f.req.categoryId \notin categories
          \/ ValueOf(f.ident).userId \notin DOMAIN users
       THEN \* the insert throws
            /\ resp' = done(Fail("createArticle", f.req, 500,
                                 "Failed to create article"))
            /\ UNCHANGED <<articles, nextArticleId>>
       ELSE /\ nextArticleId <= MaxArticles
            /\ LET row == NewArticleRow(nextArticleId, f.req.title, slug,
                                        f.req.categoryId, {}, ValueOf(f.ident).userId)
               IN /\ articles' = Insert(articles, row)
                  /\ nextArticleId' = nextArticleId + 1
                  /\ resp' = done([Ok("createArticle", f.req, 201,
                                      "Article created successfully")
                                      EXCEPT !.data = {row}])

(* createProject up to prisma.project.create *)
CreateProjectReads(c, hdr, title, technologyIds) ==
    LET auth == authenticateToken(hdr, FALSE)
        req == [hdr |-> hdr, title |-> title, technologyIds |-> technologyIds,
                unread |-> NoUnread]
    IN
    /\ fetches[c].pc = "idle"
    /\ IF ~auth.next \/ FindBySlug(projects, slugProject(title)) # {}
       THEN CreateProject(hdr, title, "d1", technologyIds, {}, {}, 0)
       ELSE /\ fetches' = [fetches EXCEPT ![c] =
                              InFlight("createProject", req, 0, auth.user)]
            /\ UNCHANGED <<userVars, now, contentVars, slugVars, comments,
                           nextCommentId, hits, served, resp>>

(* prisma.project.create and the response *)
CreateProjectWrite(c) ==
    LET f == fetches[c]
        slug == slugProject(f.req.title)
        done(r) == [r EXCEPT !.ident = f.ident]
    IN
    /\ f.pc = "createProject"
    /\ fetches' = [fetches EXCEPT ![c] = NoFetch]
    /\ UNCHANGED <<userVars, now, categories, technologies, articles,
                   nextArticleId, slugVars, comments, nextCommentId, hits, served>>
    /\ IF \/ UniqueSlugViolated(projects, slug, 0)
          \/ Given(f.req.technologyIds)
               /\ ~LinksInsertable(ValueOf(f.req.technologyIds))
          \/ ValueOf(f.ident).userId \notin DOMAIN users
       THEN \* the insert throws
            /\ resp' = done(Fail("createProject", f.req, 500,
                                 "Failed to create project"))
            /\ UNCHANGED <<projects, nextProjectId>>
       ELSE /\ nextProjectId <= MaxProjects
            /\ LET row == NewProjectRow(nextProjectId, f.req.title, slug, "d1",
                                        f.req.technologyIds, {}, {},
                                        ValueOf(f.ident).userId)
               IN /\ projects' = Insert(projects, row)
                  /\ nextProjectId' = nextProjectId + 1
                  /\ resp' = done([Ok("createProject", f.req, 201,
                                      "Project created successfully")
                                      EXCEPT !.data = {row}])

(* updateProject up to prisma.project.update *)
UpdateProjectReads(c, hdr, id, title, technologyIds) ==
    LET auth == authenticateToken(hdr, FALSE)
        projectId == parseInt(id)
        req == [hdr |-> hdr, id |-> id, title |-> title, description |-> {},
                technologyIds |-> technologyIds, featured |-> {}, status |-> {}]
    IN
    /\ fetches[c].pc = "idle"
    /\ IF \/ ~auth.next
          \/ projectId.nan
          \/ projectId.val \notin DOMAIN projects
          \/ NotOwner(projects[projectId.val], ValueOf(auth.user))
          \/ Truthy(title)
               /\ SlugConflict(slugProjectUpdate(ValueOf(title)), projectId.val) # {}
       THEN UpdateProject(hdr, id, title, {}, technologyIds, {}, {}, 0)
       ELSE /\ fetches' = [fetches EXCEPT ![c] =
                              InFlight("updateProject", req, projectId.val, auth.user)]
            /\ UNCHANGED <<userVars, now, contentVars, slugVars, comments,
                           nextCommentId, hits, served, resp>>

(* prisma.project.update and the response *)
UpdateProjectWrite(c) ==
    LET f == fetches[c]
        title == f.req.title
        slug == IF Truthy(title) THEN slugProjectUpdate(ValueOf(title)) ELSE <<>>
        done(r) == [r EXCEPT !.ident = f.ident]
    IN
    /\ f.pc = "updateProject"
    /\ fetches' = [fetches EXCEPT ![c] = NoFetch]
    /\ UNCHANGED <<userVars, now, categories, technologies, articles,
                   nextArticleId, nextProjectId, slugVars, comments, nextCommentId,
                   hits, served>>
    /\ IF \/ f.id \notin DOMAIN projects
          \/ Truthy(title) /\ UniqueSlugViolated(projects, slug, f.id)
          \/ Given(f.req.technologyIds)
               /\ ~LinksInsertable(ValueOf(f.req.technologyIds))
       THEN \* the update throws
            /\ resp' = done(Fail("updateProject", f.req, 500,
                                 "Failed to update project"))
            /\ UNCHANGED projects
       ELSE LET row == UpdatedProjectRow(projects[f.id], title, slug, {},
                                         f.req.technologyIds, {}, {})
            IN /\ projects' = [projects EXCEPT ![f.id] = row]
               /\ resp' = done([Ok("updateProject", f.req, 200,
                                   "Project updated successfully")
                                   EXCEPT !.data = {row}])

(* titles of one slug *)
SameSlugTitles == {<<"C", "!">>, <<"c">>}

NextRace ==
    \/ \E c \in Callers, hdr \in OwnerHeaders, title \in SameSlugTitles :
            CreateArticleReads(c, hdr, title, 1)
    \/ \E c \in Callers : CreateArticleWrite(c)
    \/ \E c \in Callers, hdr \in OwnerHeaders, title \in {<<"C", "!">>, <<"x">>} :
            CreateProjectReads(c, hdr, title, {})
    \/ \E c \in Callers : CreateProjectWrite(c)
    \/ \E c \in Callers, hdr \in OwnerHeaders, id \in {<<"1">>, <<"2">>},
          title \in {{<<"c">>}, {<<"A", " ", "b">>}} :
            UpdateProjectReads(c, hdr, id, title, {})
    \/ \E c \in Callers : UpdateProjectWrite(c)
    \/ \E hdr \in OwnerHeaders, id \in {<<"1">>, <<"2">>} : DeleteProject(hdr, id, 0)

SpecRace == InitSeeded /\ [][NextRace]_vars

(* Registrations by two callers whose handlers interleave between        *)
(* prisma.user.findFirst and prisma.user.create.                         *)

(* Users_username_key, Users_email_key *)
UniqueUserViolated(username, email) ==
    \E i \in DOMAIN users : users[i].username = username \/ users[i].email = email

(* register up to prisma.user.create *)
RegisterReads(c, username, email, password, firstName) ==
    LET req == [username |-> username, email |-> email, password |-> password,
                unread |-> NoUnreadUser]
    IN
    /\ fetches[c].pc = "idle"
    /\ IF FindUsersByNameOrEmail(toLowerCase(username), toLowerCase(email)) # {}
       THEN Register(username, email, password, firstName, 0)
       ELSE /\ fetches' = [fetches EXCEPT ![c] =
                              [InFlight("register", req, 0, {}) EXCEPT
                                  !.row = {firstName}]]
            /\ UNCHANGED <<userVars, now, contentVars, slugVars, comments,
                           nextCommentId, hits, served, resp>>

(* prisma.user.create, jwt.sign and the response *)
RegisterWrite(c) ==
    LET f == fetches[c]
        req == f.req
    IN
    /\ f.pc = "register"
    /\ fetches' = [fetches EXCEPT ![c] = NoFetch]
    /\ UNCHANGED <<now, contentVars, slugVars, comments, nextCommentId, hits, served>>
    /\ IF UniqueUserViolated(toLowerCase(req.username), toLowerCase(req.email))
       THEN \* the insert throws
            /\ resp' = Fail("register", req, 500, "Failed to register user")
            /\ UNCHANGED userVars
       ELSE /\ nextUserId <= MaxUsers
            /\ LET row == NewUserRow(nextUserId, req.username, req.email,
                                     req.password, CHOOSE n \in f.row : TRUE)
                   user == RegisterUserView(row)
                   token == jwtSign(user)
               IN /\ users' = Insert(users, row)
                  /\ nextUserId' = nextUserId + 1
                  /\ issued' = issued \cup {token}
                  /\ registered' = Insert(registered, user)
                  /\ resp' = [Ok("register", req, 201, "User registered successfully")
                                 EXCEPT !.user = {user}, !.token = {token}]

NextRegisterRace ==
    \/ \E c \in Callers, username \in UsernameInputs, email \in EmailInputs,
          password \in RegisterPasswords, firstName \in FirstNameInputs :
            RegisterReads(c, username, email, password, firstName)
    \/ \E c \in Callers : RegisterWrite(c)
    \/ LoginRequest

SpecRegisterRace == Init /\ [][NextRegisterRace]_vars

(* Updates of title and technologies of projects by their owner, among  *)
(* projects created with two technologies and whose slugs include the    *)
(* empty one (a title of punctuation only).                              *)

NextRetitle ==
    \/ \E hdr \in OwnerHeaders, title \in {<<"C", "!">>, <<"!">>, <<"a", "-", "b">>} :
            CreateProject(hdr, title, "d1", {<<2, 1>>}, {}, {}, 0)
    \/ \E hdr \in OwnerHeaders, id \in {<<"1">>, <<"2">>},
          title \in {{}, {<<>>}, {<<"c">>}, {<<"A", " ", "b">>}},
          technologyIds \in {{}, {<<>>}, {<<3, 1>>}} :
            UpdateProject(hdr, id, title, {}, technologyIds, {}, {}, 0)
    \/ \E hdr \in OwnerHeaders : DeleteProject(hdr, <<"1">>, 0)

SpecRetitle == InitSeeded /\ [][NextRetitle]_vars

(* Registrations whose body also carries a role and an active flag,      *)
(* logins and profile reads, while an administrator deactivates users.   *)

NextRoles ==
    \/ \E username \in UsernameInputs, email \in {<<"x">>, <<"y">>},
          unread \in {NoUnreadUser, [NoUnreadUser EXCEPT !.role = {"ADMIN"}],
                      [NoUnreadUser EXCEPT !.isActive = {FALSE}]} :
            RegisterBody(username, email, "pw1", "Ann", unread, 0)
    \/ \E username \in UsernameInputs, password \in PasswordInputs :
            Login(username, password, 0)
    \/ \E hdr \in Headers : GetProfile(hdr, 0)
    \/ DeactivateUser

SpecRoles == Init /\ [][NextRoles]_vars

(* The two list routes over articles and projects of several categories, *)
(* technologies, statuses and featured flags.                             *)

ListsCreateArticle ==
    \E hdr \in OwnerHeaders, title \in {<<"C", "!">>, <<"a", "-", "b">>},
       categoryId \in {1, 2} :
        CreateArticle(hdr, title, categoryId, {}, 0)

ProjectKinds ==
    {[technologyIds |-> {}, featured |-> {}, status |-> {}],
     [technologyIds |-> {<<1>>}, featured |-> {TRUE}, status |-> {}],
     [technologyIds |-> {}, featured |-> {}, status |-> {"COMPLETED"}]}

ListsCreateProject ==
    \E hdr \in OwnerHeaders, title \in {<<"C", "!">>, <<"a", "-", "b">>},
       k \in ProjectKinds :
        CreateProject(hdr, title, "d1", k.technologyIds, k.featured, k.status, 0)

(* ?page=&limit= as sent: both absent, or one record per page *)
Pagings ==
    {[page |-> <<>>, limit |-> <<>>],
     [page |-> <<"1">>, limit |-> <<"1">>],
     [page |-> <<"2">>, limit |-> <<"1">>]}

ListsGetArticles ==
    \/ \E p \in Pagings, category \in {{}, {1}, {2}} :
            GetAllArticles(AnonymousHeader, p.page, p.limit, category, 0)
    \/ GetAllArticles(AnonymousHeader, <<>>, <<>>, {}, 2)

NoFilter == [search |-> {}, technology |-> {}, status |-> {}, featured |-> {}]

ProjectFilters ==
    {NoFilter,
     [NoFilter EXCEPT !.search = {<<"c">>}],
     [NoFilter EXCEPT !.search = {<<"D", "1">>}],
     [NoFilter EXCEPT !.technology = {"nodejs"}],
     [NoFilter EXCEPT !.status = {"COMPLETED"}],
     [NoFilter EXCEPT !.featured = {"true"}],
     [NoFilter EXCEPT !.featured = {"false"}, !.technology = {"nodejs"}]}

ListsGetProjects ==
    \/ \E p \in Pagings, f \in ProjectFilters :
            GetAllProjects(p.page, p.limit, f.search, f.technology, f.status,
                           f.featured, 0)
    \/ \E pageParam \in {<<"x">>, <<"0">>} :
            GetAllProjects(pageParam, <<>>, {}, {}, {}, {}, 0)
    \/ GetAllProjects(<<>>, <<>>, {}, {}, {}, {}, 1)

NextLists ==
    \/ ListsCreateArticle
    \/ ListsCreateProject
    \/ ListsGetArticles
    \/ ListsGetProjects

SpecLists == InitSeeded /\ [][NextLists]_vars

(* The server's own routes behind the rate limiter, over the seeded data. *)

NextServer ==
    \/ Root
    \/ \E dbDown \in BOOLEAN : RootHealth(dbDown)
    \/ \E dbDown \in BOOLEAN : Health(dbDown)
    \/ Status
    \/ \E fail \in 0..4 : HealthDb(fail)
    \/ \E underApi \in BOOLEAN : RouteNotFound(underApi)
    \/ \E production \in BOOLEAN : ErrorHandler(production)
    \/ WindowReset

SpecServer == InitSeeded /\ [][NextServer]_vars

(* Creates whose body also carries fields the handlers do not read, by   *)
(* both users, followed by the other content routes.  The tag ids sent   *)
(* are ids of rows of the Tags table.                                     *)

ArticleBodies ==
    {NoUnread,
     [NoUnread EXCEPT !.tagIds = {<<1>>}],
     [NoUnread EXCEPT !.status = {"PUBLISHED"}],
     [NoUnread EXCEPT !.authorId = {2}]}

NextBody ==
    \/ \E hdr \in UserHeaders, unread \in ArticleBodies :
            CreateArticleBody(hdr, <<"C", "!">>, 1, {}, unread, 0)
    \/ \E hdr \in UserHeaders, technologyIds \in {{}, {<<2, 1>>}},
          unread \in {NoUnread, [NoUnread EXCEPT !.authorId = {2}]} :
            CreateProjectBody(hdr, <<"C", "!">>, "d1", technologyIds, {}, {},
                              unread, 0)
    \/ \E hdr \in UserHeaders, title \in {{}, {<<"A", " ", "b">>}},
          technologyIds \in {{}, {<<1>>}} :
            UpdateProject(hdr, <<"1">>, title, {}, technologyIds, {}, {}, 0)
    \/ \E hdr \in UserHeaders : DeleteProject(hdr, <<"1">>, 0)
    \/ \E hdr \in UserHeaders \cup {AnonymousHeader} :
            GetArticleById(hdr, <<"1">>, 0)
    \/ GetAllArticles(AnonymousHeader, <<>>, <<>>, {}, 0)

SpecBody == InitSeeded /\ [][NextBody]_vars

(* Project lists while creates and deletes commit between the two        *)
(* statements of the list's transaction.  prisma.$transaction([findMany, *)
(* count]) runs them in one transaction at the database's default        *)
(* isolation level, READ COMMITTED, where each statement reads the rows  *)
(* committed when it starts.                                             *)

(* getAllProjects up to the findMany of its transaction *)
ListProjectsFind(c, p, f) ==
    LET req == [page |-> p.page, limit |-> p.limit, search |-> f.search,
                technology |-> f.technology, status |-> f.status,
                featured |-> f.featured]
        take == IF p.limit = <<>> THEN 10 ELSE parseInt(p.limit).val
        skip == ((IF p.page = <<>> THEN 1 ELSE parseInt(p.page).val) - 1) * take
        ids == {i \in DOMAIN projects :
                    ProjectMatches(projects[i], f.search, f.technology, f.status,
                                   f.featured)}
    IN
    /\ fetches[c].pc = "idle"
    /\ fetches' = [fetches EXCEPT ![c] =
                      [InFlight("getAllProjects", req, 0, {}) EXCEPT
                          !.row = {SkipTake(NewestFirst(projects, ids), skip, take)}]]
    /\ UNCHANGED <<userVars, now, contentVars, slugVars, comments, nextCommentId,
                   hits, served, resp>>

(* the count of the transaction and the response *)
ListProjectsCount(c) ==
    LET f == fetches[c]
        q == f.req
        take == IF q.limit = <<>> THEN 10 ELSE parseInt(q.limit).val
        total == Cardinality({i \in DOMAIN projects :
                    ProjectMatches(projects[i], q.search, q.technology, q.status,
                                   q.featured)})
    IN
    /\ f.pc = "getAllProjects"
    /\ fetches' = [fetches EXCEPT ![c] = NoFetch]
    /\ UNCHANGED <<userVars, now, contentVars, slugVars, comments, nextCommentId,
                   hits, served>>
    /\ resp' = [Ok("getAllProjects", q, 200, "") EXCEPT
            !.list = CHOOSE l \in f.row : TRUE,
            !.pagination = {[page |-> IF q.page = <<>> THEN 1 ELSE parseInt(q.page).val,
                             limit |-> take, total |-> total,
                             totalPages |-> CeilDiv(total, take)]}]

NextListRace ==
    \/ \E p \in Pagings, f \in {NoFilter, [NoFilter EXCEPT !.technology = {"nodejs"}]} :
            ListProjectsFind("c1", p, f)
    \/ ListProjectsCount("c1")
    \/ \E hdr \in OwnerHeaders, title \in {<<"C", "!">>, <<"a", "-", "b">>},
          technologyIds \in {{}, {<<1>>}} :
            CreateProject(hdr, title, "d1", technologyIds, {}, {}, 0)
    \/ \E hdr \in OwnerHeaders, id \in {<<"1">>, <<"2">>} : DeleteProject(hdr, id, 0)

SpecListRace == InitSeeded /\ [][NextListRace]_vars

TitleChars == {"A", "b", "1", " ", "\t", "-", "!"}

Titles == UNION {[1..n -> TitleChars] : n \in 1..MaxTitleLen}

InitSlug ==
    /\ SeededDatabase
    /\ slugIn \in Titles
    /\ slugOut = <<>>

DeriveSlugs ==
    /\ slugOut = <<>>
    /\ slugOut' = [article |-> slugArticle(slugIn), project |-> slugProject(slugIn),
                   update |-> slugProjectUpdate(slugIn)]
    /\ UNCHANGED <<userVars, now, contentVars, slugIn, resp, serverVars>>

NextSlug == DeriveSlugs

SpecSlug == InitSlug /\ [][NextSlug]_vars

---------------------------------------------------------------------------
(* Properties of the user routes, checked under Spec *)

IsRequest(op) == resp' # resp /\ resp'.op = op /\ ~resp'.dbError

UsernameTaken(username) ==
    \E i \in DOMAIN users : users[i].username = toLowerCase(username)

EmailTaken(email) == \E i \in DOMAIN users : users[i].email = toLowerCase(email)

RegisterCreated(req, r, table, tokens) ==
    /\ r.status = 201
    /\ r.success
    /\ \E u \in r.user, t \in r.token :
        /\ r.user = {u}
        /\ u.id \in DOMAIN table
        /\ u = RegisterUserView(table[u.id])
        /\ u.username = toLowerCase(req.username)
        /\ u.email = toLowerCase(req.email)
        /\ t.userId = u.id
        /\ t \in tokens

ProfileOfToken(r) ==
    \A t \in r.req.hdr.cred :
        (/\ r.req.hdr.present
         /\ t \in issued
         /\ now < t.exp
         /\ t.userId \in DOMAIN users
         /\ users[t.userId].isActive)
        => (/\ r.status = 200
            /\ r.success
            /\ r.user = {registered[t.userId]})

(* C1: a registration with an unused username and email is answered 201   *)
(* with the created user and a token, and a later profile request that    *)
(* carries an issued, unexpired token of a still active user is answered  *)
(* 200 with the record registration returned for that user.               *)
C1_RegisterThenProfile ==
    [][/\ (/\ IsRequest("register")
           /\ ~UsernameTaken(resp'.req.username)
           /\ ~EmailTaken(resp'.req.email))
          => RegisterCreated(resp'.req, resp', users', issued')
       /\ IsRequest("profile") => ProfileOfToken(resp')]_vars

C1_Witness ==
    /\ resp.op = "profile"
    /\ resp.status = 200
    /\ \E t \in resp.req.hdr.cred :
        /\ t \in issued
        /\ t.userId \in DOMAIN registered
        /\ resp.user = {registered[t.userId]}

(* C2: a registration whose username is taken (up to case) is answered    *)
(* 400 'Username already exists'; one whose email is taken while the      *)
(* username is free is answered 400 'Email already exists'; either way    *)
(* the Users table is unchanged.                                          *)
C2_DuplicateRejected ==
    [][IsRequest("register") =>
        /\ UsernameTaken(resp'.req.username)
            => (/\ resp'.status = 400
                /\ resp'.error = "Username already exists"
                /\ users' = users)
        /\ (~UsernameTaken(resp'.req.username) /\ EmailTaken(resp'.req.email))
            => (/\ resp'.status = 400
                /\ resp'.error = "Email already exists"
                /\ users' = users)]_vars

(* C3: a registration that collides on both username and email, with one  *)
(* stored user or with two, is told 'Username already exists'.            *)
C3_UsernameReportedFirst ==
    [][(/\ IsRequest("register")
        /\ UsernameTaken(resp'.req.username)
        /\ EmailTaken(resp'.req.email))
       => resp'.error = "Username already exists"]_vars

(* C4: no response of register, login or profile carries a passwordHash   *)
(* or password field, and every stored user row holds the bcrypt hash and *)
(* no raw password.                                                       *)
C4_PasswordNeverExposed ==
    /\ \A u \in resp.user :
        /\ "passwordHash" \notin DOMAIN u
        /\ "password" \notin DOMAIN u
    /\ \A t \in resp.token : DOMAIN t = {"userId", "username", "role", "exp", "sig"}
    /\ \A i \in DOMAIN users :
        /\ "password" \notin DOMAIN users[i]
        /\ users[i].passwordHash \notin PasswordInputs
        /\ \E p \in PasswordInputs : users[i].passwordHash = bcryptHash(p)

C4_Witness ==
    /\ resp.op = "login"
    /\ resp.status = 200
    /\ resp.user # {}
    /\ users # <<>>

LoginShouldSucceed(req) ==
    \E i \in DOMAIN users :
        /\ users[i].username = toLowerCase(req.username)
        /\ users[i].isActive
        /\ users[i].passwordHash = bcryptHash(req.password)

InvalidCredentials(r) ==
    /\ r.status = 401
    /\ r.success = FALSE
    /\ r.error = "Invalid credentials"
    /\ r.message = ""
    /\ r.user = {}
    /\ r.token = {}
    /\ r.data = {}

(* C5: login with the password of an active user is answered 200 with a   *)
(* token; an unknown username, an inactive user and a wrong password all  *)
(* get the same 401 body {success: false, error: 'Invalid credentials'}.  *)
C5_LoginUniformFailure ==
    [][IsRequest("login") =>
        IF LoginShouldSucceed(resp'.req)
        THEN /\ resp'.status = 200
             /\ resp'.success
             /\ \E t \in resp'.token :
                 /\ t \in issued'
                 /\ users[t.userId].username = toLowerCase(resp'.req.username)
        ELSE InvalidCredentials(resp')]_vars

C5_Witness ==
    /\ resp.op = "login"
    /\ resp.status = 401
    /\ \E i \in DOMAIN users :
        /\ users[i].username = toLowerCase(resp.req.username)
        /\ ~users[i].isActive
        /\ users[i].passwordHash = bcryptHash(resp.req.password)

GuardedOps ==
    {"profile", "createArticle", "createProject", "updateProject", "deleteProject"}

NoBearerToken(hdr) == ~hdr.present \/ hdr.cred = {}

(* a token the server never signed, or one past its expiry *)
FailsVerification(t) == t \notin issued \/ t.exp <= now

RejectedWith(r, status, error) ==
    /\ r.status = status
    /\ r.error = error
    /\ ~r.success
    /\ ~r.ran
    /\ r.user = {}
    /\ r.token = {}
    /\ r.data = {}

StoredDataUnchanged ==
    /\ users' = users
    /\ articles' = articles
    /\ projects' = projects
    /\ categories' = categories
    /\ technologies' = technologies

(* C6: on every route behind authenticateToken a request without a bearer *)
(* token is answered 401 'Access token required', one whose token was not *)
(* signed by the server or has expired is answered 403 'Invalid or        *)
(* expired token'; the controller does not run and no table changes.      *)
C6_GuardRejects ==
    [][\A op \in GuardedOps : IsRequest(op) =>
        /\ NoBearerToken(resp'.req.hdr)
            => (/\ RejectedWith(resp', 401, "Access token required")
                /\ StoredDataUnchanged)
        /\ \A t \in resp'.req.hdr.cred :
            (resp'.req.hdr.present /\ FailsVerification(t))
            => (/\ RejectedWith(resp', 403, "Invalid or expired token")
                /\ StoredDataUnchanged)]_vars

C6_Witness ==
    /\ resp.op = "deleteProject"
    /\ resp.status = 403
    /\ ~resp.ran
    /\ \E t \in resp.req.hdr.cred : t \in issued /\ t.exp <= now
    /\ parseInt(resp.req.id).val \in DOMAIN projects

(* a token issued to a user whose row is gone or is inactive *)
RevokedToken(t) ==
    /\ t \in issued
    /\ (t.userId \notin DOMAIN users \/ ~users[t.userId].isActive)

(* C7 as stated: every token issued to a deactivated or deleted user is   *)
(* answered 401 'Invalid or inactive user' on every guarded route.        *)
C7_AnyRevokedToken401 ==
    [][\A op \in GuardedOps : IsRequest(op) =>
        \A t \in resp'.req.hdr.cred :
            (resp'.req.hdr.present /\ RevokedToken(t))
            => RejectedWith(resp', 401, "Invalid or inactive user")]_vars

(* C7: on every guarded route a token issued to a deactivated or deleted  *)
(* user is answered 401 'Invalid or inactive user' while it has not       *)
(* expired and 403 'Invalid or expired token' once it has; either way the *)
(* controller does not run.                                               *)
C7_RevokedUserRejected ==
    [][\A op \in GuardedOps : IsRequest(op) =>
        \A t \in resp'.req.hdr.cred :
            (resp'.req.hdr.present /\ RevokedToken(t))
            => IF now < t.exp
               THEN RejectedWith(resp', 401, "Invalid or inactive user")
               ELSE RejectedWith(resp', 403, "Invalid or expired token")]_vars

C7_Witness ==
    /\ resp.op = "createArticle"
    /\ resp.status = 401
    /\ resp.error = "Invalid or inactive user"
    /\ ~resp.ran
    /\ \E t \in resp.req.hdr.cred :
        /\ RevokedToken(t)
        /\ now < t.exp
        /\ t.userId \in DOMAIN users

OptionalOps == {"getArticleById", "getAllArticles"}

(* C8: on the routes behind optionalAuth the middleware sends no response *)
(* and calls next exactly once whatever the header holds, and an identity *)
(* is on the request only if the token was signed by the server, has not  *)
(* expired and names a stored, active user: then it is that user's.       *)
C8_OptionalAuthNeverRejects ==
    [][\A op \in OptionalOps : (resp' # resp /\ resp'.op = op) =>
        /\ resp'.nextCalls = 1
        /\ resp'.ran
        /\ resp'.status \notin {401, 403}
        /\ \A u \in resp'.ident :
            \E t \in resp'.req.hdr.cred :
                /\ resp'.req.hdr.present
                /\ t \in issued
                /\ now < t.exp
                /\ t.userId \in DOMAIN users
                /\ users[t.userId].isActive
                /\ u.userId = t.userId
                /\ u.username = users[t.userId].username]_vars

C8_Witness ==
    /\ resp.op = "getAllArticles"
    /\ resp.status = 200
    /\ resp.nextCalls = 1
    /\ resp.ident = {}
    /\ \E t \in resp.req.hdr.cred : RevokedToken(t) /\ now < t.exp

(* The slug as the specification words it, one step at a time *)
RECURSIVE Squeeze(_, _)
Squeeze(s, class) ==
    IF s = <<>> THEN <<>>
    ELSE IF Head(s) \notin class THEN <<Head(s)>> \o Squeeze(Tail(s), class)
    ELSE IF Len(s) > 1 /\ s[2] \in class THEN Squeeze(Tail(s), class)
    ELSE <<"-">> \o Squeeze(Tail(s), class)

DescribedSlug(title) ==
    LET lowered == [i \in 1..Len(title) |-> ToLowerChar(title[i])]
        kept == SelectSeq(lowered, LAMBDA c : c \in SlugClass)
        hyphenated == Squeeze(kept, Whitespace)
        collapsed == Squeeze(hyphenated, Hyphen)
    IN trim(collapsed)

SlugHeld(table, slug) == \E i \in DOMAIN table : table[i].slug = slug

CreatedWithSlug(r, before, after, slug) ==
    /\ r.status = 201
    /\ r.success
    /\ \E row \in r.data :
        /\ r.data = {row}
        /\ row.slug = slug
        /\ row.id \in DOMAIN after \ DOMAIN before
        /\ after[row.id] = row
        /\ \A i \in DOMAIN before : after[i] = before[i]

NotCreated(r, status, error, before, after) ==
    /\ r.status = status
    /\ r.error = error
    /\ ~r.success
    /\ after = before

RelationsExist(ids) ==
    \A seq \in ids :
        /\ \A k \in 1..Len(seq) : seq[k] \in technologies
        /\ \A j, k \in 1..Len(seq) : seq[j] = seq[k] => j = k

(* C9 as stated: a create whose slug is held is answered 400 and creates  *)
(* nothing, and every create whose slug is free is answered 201 with the  *)
(* slug of the title.                                                     *)
C9_UnusedSlugAlwaysCreated ==
    [][/\ IsRequest("createArticle") =>
            IF SlugHeld(articles, DescribedSlug(resp'.req.title))
            THEN NotCreated(resp', 400, "An article with this title already exists",
                            articles, articles')
            ELSE CreatedWithSlug(resp', articles, articles',
                                 DescribedSlug(resp'.req.title))
       /\ IsRequest("createProject") =>
            IF SlugHeld(projects, DescribedSlug(resp'.req.title))
            THEN NotCreated(resp', 400, "A project with this title already exists",
                            projects, projects')
            ELSE CreatedWithSlug(resp', projects, projects',
                                 DescribedSlug(resp'.req.title))]_vars

(* C9: a create whose slug is held by a stored record of the same type is *)
(* answered 400 '... already exists' and creates nothing; one whose slug  *)
(* is free is answered 201 with the slug of the title stored and returned *)
(* when the category id (article) or the technology ids (project) name    *)
(* stored rows without repetition, and 500 with nothing created when not. *)
C9_CreateBySlug ==
    [][/\ IsRequest("createArticle") =>
            IF SlugHeld(articles, DescribedSlug(resp'.req.title))
            THEN NotCreated(resp', 400, "An article with this title already exists",
                            articles, articles')
            ELSE IF resp'.req.categoryId \in categories
            THEN CreatedWithSlug(resp', articles, articles',
                                 DescribedSlug(resp'.req.title))
            ELSE NotCreated(resp', 500, "Failed to create article",
                            articles, articles')
       /\ IsRequest("createProject") =>
            IF SlugHeld(projects, DescribedSlug(resp'.req.title))
            THEN NotCreated(resp', 400, "A project with this title already exists",
                            projects, projects')
            ELSE IF RelationsExist(resp'.req.technologyIds)
            THEN CreatedWithSlug(resp', projects, projects',
                                 DescribedSlug(resp'.req.title))
            ELSE NotCreated(resp', 500, "Failed to create project",
                            projects, projects')]_vars

C9_Witness ==
    /\ resp.op = "createProject"
    /\ resp.status = 400
    /\ resp.error = "A project with this title already exists"
    /\ \E i \in DOMAIN projects :
        /\ projects[i].slug = DescribedSlug(resp.req.title)
        /\ projects[i].title # resp.req.title

(* C10: the slug derived at article create, at project create and at      *)
(* project update is, for every title, the title lowercased, stripped of  *)
(* every character outside a-z, 0-9, whitespace and '-', with each run of *)
(* whitespace and then each run of '-' replaced by one '-', and trimmed.  *)
C10_SlugDeterministic ==
    slugOut # <<>> =>
        /\ slugOut.article = DescribedSlug(slugIn)
        /\ slugOut.project = DescribedSlug(slugIn)
        /\ slugOut.update = DescribedSlug(slugIn)

C10_Witness ==
    /\ slugOut # <<>>
    /\ \E i \in 1..(Len(slugIn) - 1) : slugIn[i] \in Whitespace /\ slugIn[i + 1] = "-"
    /\ \E i \in 1..Len(slugIn) : slugIn[i] \notin SlugClass
    /\ slugOut.project = slugOut.article
    /\ slugOut.project = <<"-">>

(* C11: every stored article's viewCount equals the number of detail     *)
(* fetches of it that were answered 200, whatever the interleaving of the *)
(* handlers' database calls: no increment is lost or merged.              *)
C11_ViewsCountFetches ==
    \A id \in DOMAIN articles : articles[id].viewCount = ServedCount(id)

C11_Witness ==
    /\ \E id \in DOMAIN articles :
        /\ articles[id].viewCount = 2
        /\ ServedCount(id) = 2
    /\ resp.op = "getArticleById"
    /\ resp.status = 200
    /\ \E row \in resp.data : row.viewCount = 0

(* the id parameter is a decimal numeral *)
IsNumber(id) == id # <<>> /\ \A k \in 1..Len(id) : IsDigit(id[k])

DetailErrors(r, table, invalid, notFound) ==
    /\ ~IsNumber(r.req.id)
        => (/\ r.status = 400
            /\ r.error = invalid
            /\ StoredDataUnchanged)
    /\ (IsNumber(r.req.id) /\ DigitsValue(r.req.id, 0) \notin DOMAIN table)
        => (/\ r.status = 404
            /\ r.error = notFound
            /\ StoredDataUnchanged)

(* C12: a detail fetch with an id that is not a number is answered 400    *)
(* 'Invalid article ID' / 'Invalid project ID', one with a number that no *)
(* stored record has 404 '... not found', and neither changes a table.    *)
C12_DetailErrors ==
    [][/\ IsRequest("getArticleById")
            => DetailErrors(resp', articles, "Invalid article ID", "Article not found")
       /\ IsRequest("getProjectById")
            => DetailErrors(resp', projects, "Invalid project ID", "Project not found")]_vars

(* the caller the request's token was issued to *)
CallerOf(r) == {t.userId : t \in r.req.hdr.cred}

(* C13: an update or delete of a stored project by an authenticated user  *)
(* who is not its author is answered 403 'You can only update/delete your *)
(* own projects' and changes no project; a project changes or goes only   *)
(* in an update or delete requested by its author.                        *)
C13_OnlyAuthorChanges ==
    [][/\ \A op \in {"updateProject", "deleteProject"} :
            (/\ IsRequest(op)
             /\ resp'.ran
             /\ IsNumber(resp'.req.id)
             /\ DigitsValue(resp'.req.id, 0) \in DOMAIN projects
             /\ projects[DigitsValue(resp'.req.id, 0)].authorId \notin CallerOf(resp'))
            => (/\ resp'.status = 403
                /\ resp'.error = (IF op = "updateProject"
                                  THEN "You can only update your own projects"
                                  ELSE "You can only delete your own projects")
                /\ projects' = projects)
       /\ \A i \in DOMAIN projects :
            (i \notin DOMAIN projects' \/ projects'[i] # projects[i])
            => (/\ resp' # resp
                /\ resp'.op \in {"updateProject", "deleteProject"}
                /\ DigitsValue(resp'.req.id, 0) = i
                /\ CallerOf(resp') = {projects[i].authorId})]_vars

C13_Witness ==
    /\ resp.op = "updateProject"
    /\ resp.status = 403
    /\ resp.error = "You can only update your own projects"
    /\ resp.req.technologyIds # {}
    /\ \E i \in DOMAIN projects :
        /\ i = DigitsValue(resp.req.id, 0)
        /\ projects[i].authorId \notin CallerOf(resp)
        /\ projects[i].technologies = {1, 2}
        /\ projects[i].description = "d1"

Supplied(field, old) == IF Given(field) THEN ValueOf(field) ELSE old

UpdateSucceeded ==
    /\ IsRequest("updateProject")
    /\ resp'.status = 200
    /\ DigitsValue(resp'.req.id, 0) \in DOMAIN projects

(* what a successful update leaves alone: the other rows, and in the row  *)
(* itself the id, the author and every field the body did not supply      *)
UpdateFrame(req, old, new) ==
    /\ DOMAIN projects' = DOMAIN projects
    /\ \A i \in DOMAIN projects : i # old.id => projects'[i] = projects[i]
    /\ new.id = old.id
    /\ new.authorId = old.authorId
    /\ new.description = Supplied(req.description, old.description)
    /\ new.featured = Supplied(req.featured, old.featured)
    /\ new.status = Supplied(req.status, old.status)
    /\ new.technologies = IF Given(req.technologyIds)
                          THEN {ValueOf(req.technologyIds)[k] :
                                    k \in 1..Len(ValueOf(req.technologyIds))}
                          ELSE old.technologies
    /\ resp'.data = {new}

DeletedProjectId(id) == id >= 1 /\ id < nextProjectId /\ id \notin DOMAIN projects

C16_NoDanglingReference ==
    /\ \A a \in DOMAIN articles :
        /\ articles[a].authorId \in DOMAIN users
        /\ articles[a].categoryId \in categories
    /\ \A p \in DOMAIN projects :
        /\ projects[p].authorId \in DOMAIN users
        /\ projects[p].technologies \subseteq technologies
    /\ \A c \in DOMAIN comments :
        /\ comments[c].authorId \in DOMAIN users
        /\ comments[c].articleId \in DOMAIN articles

C16_Witness ==
    /\ 1 \notin DOMAIN users
    /\ 2 \in DOMAIN users
    /\ nextArticleId = 3
    /\ nextCommentId = 3
    /\ nextProjectId > 1
    /\ DOMAIN articles = {2}
    /\ comments = <<>>

(* The record a list request describes: its filters, read as the query    *)
(* names them (category by id, technology by slug, featured 'true' or     *)
(* 'false', search a case-insensitive substring of title or description). *)
LowerText(text) == [k \in 1..Len(text) |-> ToLowerChar(text[k])]

IsSubstring(part, text) ==
    \E k \in 1..(Len(text) - Len(part) + 1) : SubSeq(text, k, k + Len(part) - 1) = part

SatisfiesArticleFilters(row, q) ==
    \A c \in q.category : row.categoryId = c

SatisfiesProjectFilters(row, q) ==
    /\ \A t \in q.search :
          t # <<>> => \/ IsSubstring(LowerText(t), LowerText(row.title))
                      \/ IsSubstring(LowerText(t),
                                     LowerText(DescriptionText(row.description)))
    /\ \A t \in q.technology : \E k \in row.technologies : TechnologySlugs[k] = t
    /\ \A t \in q.status : row.status = t
    /\ \A t \in q.featured : row.featured <=> (t = "true")

Matching(op, q) ==
    IF op = "getAllArticles"
    THEN {i \in DOMAIN articles : SatisfiesArticleFilters(articles[i], q)}
    ELSE {i \in DOMAIN projects : SatisfiesProjectFilters(projects[i], q)}

ListOps == {"getAllArticles", "getAllProjects"}

RequestedPage(q) == IF q.page = <<>> THEN 1 ELSE parseInt(q.page).val
RequestedLimit(q) == IF q.limit = <<>> THEN 10 ELSE parseInt(q.limit).val

ListAnswered(op) ==
    /\ IsRequest(op)
    /\ resp'.status = 200
    /\ RequestedPage(resp'.req) >= 1
    /\ RequestedLimit(resp'.req) >= 1

(* C17: a list answered for page >= 1 and limit >= 1 reports as total the  *)
(* number of stored records matching the request's filters and as         *)
(* totalPages ceil(total/limit), with page 1 and limit 10 when absent.    *)
C17_PaginationCounts ==
    [][\A op \in ListOps :
         ListAnswered(op) =>
            \A p \in resp'.pagination :
               /\ p.page = RequestedPage(resp'.req)
               /\ p.limit = RequestedLimit(resp'.req)
               /\ p.total = Cardinality(Matching(op, resp'.req))
               /\ p.totalPages = CeilDiv(p.total, p.limit)]_vars

(* C18: the data of a list response holds only records satisfying every   *)
(* filter of the request, at most limit of them; filtered by a category   *)
(* holding exactly one article, it is exactly that article.               *)
C18_ListMatchesFilters ==
    [][\A op \in ListOps :
         ListAnswered(op) =>
            LET q == resp'.req
                table == IF op = "getAllArticles" THEN articles ELSE projects
            IN /\ Len(resp'.list) <= RequestedLimit(q)
               /\ \A k \in 1..Len(resp'.list) :
                     resp'.list[k].id \in Matching(op, q)
               /\ (op = "getAllArticles" /\ RequestedPage(q) = 1
                   /\ Cardinality(Matching(op, q)) = 1)
                   => resp'.list = <<table[CHOOSE i \in Matching(op, q) : TRUE]>>]_vars

Answered(op) == resp' # resp /\ resp'.op = op

(* C19: GET /api/v1/health is answered 200 in every state, whether or not *)
(* the database is reachable, without a database call; GET                *)
(* /api/v1/health/db is answered 503 when one of its queries fails and    *)
(* 200 otherwise.                                                         *)
C19_HealthAlways200 ==
    [][/\ Answered("health") => resp'.status = 200 /\ ~resp'.dbError
       /\ Answered("healthDb")
            => resp'.status = IF resp'.req.fail \in 1..4 THEN 503 ELSE 200]_vars

(* C20: every response is a JSON object with a boolean field success that *)
(* is true exactly when the status code is 2xx.                           *)
C20_UniformEnvelope ==
    resp.op # "none"
        => /\ resp.body = "envelope"
           /\ resp.success <=> resp.status \in 200..299

Created(op) == IsRequest(op) /\ resp'.status = 201

(* the ids a relation field of a request body names *)
IdsOf(field) == UNION {Range(ids) : ids \in field}

(* C21: a successful create stores the record linked to exactly the ids   *)
(* its body supplies (tagIds of an article, technologyIds of a project),  *)
(* and the 201 response shows those relations.                            *)
C21_RelationsStored ==
    [][/\ Created("createArticle")
            => \E row \in resp'.data :
                  /\ row.tags = IdsOf(resp'.req.unread.tagIds)
                  /\ articles'[row.id].tags = IdsOf(resp'.req.unread.tagIds)
       /\ Created("createProject")
            => \E row \in resp'.data :
                  /\ row.technologies = IdsOf(resp'.req.technologyIds)
                  /\ projects'[row.id].technologies
                        = IdsOf(resp'.req.technologyIds)]_vars

(* C22: in every reachable state, whatever the interleaving of creates,   *)
(* updates and deletes, no two articles share a slug and no two projects  *)
(* share a slug.                                                          *)
C22_SlugsUnique ==
    /\ \A i, j \in DOMAIN articles : articles[i].slug = articles[j].slug => i = j
    /\ \A i, j \in DOMAIN projects : projects[i].slug = projects[j].slug => i = j

(* two creates passed their slug checks for one slug; one wrote, and the *)
(* write of the other was refused by the unique index                    *)
C22_Witness ==
    /\ resp.op = "createProject"
    /\ resp.status = 500
    /\ \E i \in DOMAIN projects : projects[i].slug = slugProject(resp.req.title)

(* the slug a create or a title-changing update asks for is held by a     *)
(* record other than its own when the request is answered                 *)
SlugTaken(r) ==
    \/ /\ r.op = "createArticle"
       /\ \E i \in DOMAIN articles : articles[i].slug = slugArticle(r.req.title)
    \/ /\ r.op = "createProject"
       /\ \E i \in DOMAIN projects : projects[i].slug = slugProject(r.req.title)
    \/ /\ r.op = "updateProject"
       /\ r.status \notin {403, 404}
       /\ \E t \in r.req.title, i \in DOMAIN projects :
             /\ t # <<>>
             /\ <<i>> # <<parseInt(r.req.id).val>>
             /\ projects[i].slug = slugProjectUpdate(t)

AlreadyExists ==
    {"An article with this title already exists",
     "A project with this title already exists"}

(* C23: of two requests for one slug handled concurrently, the one that   *)
(* does not take the slug is answered 400 with the 'already exists'       *)
(* message, as in the sequential case.                                    *)
C23_LoserAnswered400 ==
    [][(resp' # resp /\ resp'.ran /\ ~resp'.dbError /\ SlugTaken(resp'))
          => resp'.status = 400 /\ resp'.error \in AlreadyExists]_vars

RegisterConflicts == {"Username already exists", "Email already exists"}

(* C24: of two concurrent registrations with the same username (up to     *)
(* case) or the same email, one creates the user row and the other is     *)
(* answered 400 with 'Username already exists' or 'Email already exists'. *)
C24_RegisterLoser400 ==
    [][/\ \A i, j \in DOMAIN users' :
             (\/ users'[i].username = users'[j].username
              \/ users'[i].email = users'[j].email) => i = j
       /\ (/\ resp' # resp
           /\ resp'.op = "register"
           /\ UsernameTaken(resp'.req.username) \/ EmailTaken(resp'.req.email))
          => resp'.status = 400 /\ resp'.error \in RegisterConflicts]_vars

(* an update of an existing project by its owner was answered *)
OwnerUpdated(id) ==
    /\ IsRequest("updateProject")
    /\ id \in DOMAIN projects
    /\ id = parseInt(resp'.req.id).val
    /\ \E caller \in resp'.ident : projects[id].authorId = caller.userId

HeldByAnother(slug, id) == \E i \in DOMAIN projects : i # id /\ projects[i].slug = slug

TitleConflict400(r) ==
    r.status = 400 /\ r.error = "A project with this title already exists"

C26_LinksReplaced ==
    [][(IsRequest("updateProject") /\ resp'.status = 200)
          => \A T \in resp'.req.technologyIds :
                /\ projects'[parseInt(resp'.req.id).val].technologies = Range(T)
                /\ \A row \in resp'.data : row.technologies = Range(T)]_vars

(* a project created with technologies 1 and 2 was updated with an empty *)
(* technologyIds and holds no link                                       *)
C26_Witness ==
    /\ resp.op = "updateProject"
    /\ resp.status = 200
    /\ resp.req.technologyIds = {<<>>}
    /\ \E row \in resp.data : row.technologies = {} /\ projects[row.id] = row

(* the length of the skip/take slice of any set of the given size *)
SliceLength(total, skip, take) ==
    IF total - skip <= 0 THEN 0
    ELSE IF total - skip < take THEN total - skip ELSE take

(* C27: a project list response is taken from one database state even     *)
(* when creates and deletes run concurrently: the returned page is the    *)
(* skip/take slice, newest first, of a set of matching projects whose     *)
(* size is the returned total.                                            *)
C27_ListFromOneState ==
    [][(IsRequest("getAllProjects") /\ resp'.status = 200)
          => \A p \in resp'.pagination :
                /\ Len(resp'.list) = SliceLength(p.total, (p.page - 1) * p.limit, p.limit)
                /\ \A k \in 1..(Len(resp'.list) - 1) :
                      resp'.list[k].id > resp'.list[k + 1].id]_vars

Untouched(field, before, after) ==
    \A id \in DOMAIN before \cap DOMAIN after : after[id][field] = before[id][field]

(* C28: an article or project created through the API has the authorId   *)
(* of the authenticated caller, whatever the body contains, and no API    *)
(* operation changes a record's authorId afterwards.                      *)
C28_AuthorIsCaller ==
    [][/\ Created("createArticle")
            => \E row \in resp'.data :
                  /\ CallerOf(resp') = {row.authorId}
                  /\ articles'[row.id].authorId = row.authorId
                  /\ row.id \notin DOMAIN articles
       /\ Created("createProject")
            => \E row \in resp'.data :
                  /\ CallerOf(resp') = {row.authorId}
                  /\ projects'[row.id].authorId = row.authorId
                  /\ row.id \notin DOMAIN projects
       /\ Untouched("authorId", articles, articles')
       /\ Untouched("authorId", projects, projects')]_vars

(* user 1 created a project with a body naming user 2 as author; the    *)
(* project is stored and shown as authored by user 1                     *)
C28_Witness ==
    /\ resp.op = "createProject"
    /\ resp.status = 201
    /\ resp.req.unread.authorId = {2}
    /\ \E row \in resp.data : row.authorId = 1 /\ projects[row.id] = row

(* C29: a user created by registration has role USER and isActive true   *)
(* whatever the body carries, the issued token carries that role, and no  *)
(* API operation changes the role or the active flag of a user.           *)
C29_RegisteredAsUser ==
    [][/\ (IsRequest("register") /\ resp'.status = 201)
            => \E u \in resp'.user, t \in resp'.token :
                  /\ u.id \notin DOMAIN users
                  /\ u.role = "USER" /\ u.isActive
                  /\ users'[u.id].role = "USER" /\ users'[u.id].isActive
                  /\ t.userId = u.id /\ t.role = "USER"
       /\ resp' # resp
            => /\ DOMAIN users \subseteq DOMAIN users'
               /\ Untouched("role", users, users')
               /\ Untouched("isActive", users, users')]_vars

(* a registration whose body asked for the role ADMIN created a USER *)
C29_Witness ==
    /\ resp.op = "register"
    /\ resp.status = 201
    /\ resp.req.unread.role = {"ADMIN"}
    /\ \E u \in resp.user : users[u.id].role = "USER" /\ users[u.id].isActive

====
